---- MODULE Spec2Model ----
(***************************************************************************)
(* Model of the resource-allocation optimisation core of                   *)
(* po-otimizacaoseguranca: otimizar_alocacao (src/otimizacao.py).          *)
(*                                                                         *)
(* Units.  Money (orcamento_2022_milhoes, orcamento_disponivel, the LP     *)
(* variables x[e] and investimento_milhoes) is counted in thousandths of   *)
(* R$ million ("mils"), so a value rounded to 2 decimals is a multiple of  *)
(* 10.  elasticidade is counted in hundredths (30 stands for 0.30).       *)
(* Percentages given by the caller are plain integers.  reducao_percentual *)
(* is counted in hundredths of a percent and fo_valor in 1/10000.          *)
(* Every other quantity (a reduction, an objective value) is an exact      *)
(* fraction num/den, rounded only where the code rounds.                   *)
(*                                                                         *)
(* Inputs.  Every row that enters the LP has orcamento_2022_milhoes > 0    *)
(* (the objective divides by it), mortes_violentas >= 0 and an elasticity  *)
(* in [0.01, 0.30]; the percentages are >= 0 and the budget is >= 0.       *)
(*                                                                         *)
(* Solver.  PuLP/CBC is outside the repository: modelo.solve is modelled   *)
(* by what a simplex solver guarantees, status Infeasible when no point    *)
(* satisfies the bounds and the budget row, otherwise status Optimal with  *)
(* some optimal basic solution.                                            *)
(***************************************************************************)
EXTENDS Integers, Sequences, FiniteSets, TLC

VARIABLES
    df_dados,                 \* the caller's table: sigla -> row
    orcamento_disponivel,     \* argument of the current call
    investimento_minimo_pct,  \* argument of the current call
    investimento_maximo_pct,  \* argument of the current call
    pc,                       \* position of the current call
    status,                   \* LpStatus[modelo.status]
    x,                        \* value(x[e]) of the solved LP
    alocacao_lista,           \* rows built by the extraction loop
    resultado,                \* the returned ResultadoOtimizacao
    anterior,                 \* what the previous call on this table returned
    chamadas                  \* number of calls started so far

\* executar_monte_carlo (src/monte_carlo.py); its table is df_dados
VARIABLES
    orcamento_mc,             \* argument orcamento: the budget of every solve
    n_simulacoes,             \* argument
    incerteza_elasticidade,   \* argument, in percent (20 stands for 0.20)
    incerteza_taxa,           \* argument, in percent
    seed,                     \* argument: <<>> stands for None, <<s>> for s
    estado_rng,               \* state of numpy's process-wide generator
    sorteios,                 \* what the generator gives at each state it was in
    solucoes,                 \* what the solve gave for each table it was given
    pc_mc,                    \* position of the current call
    i,                        \* loop variable: draws attempted so far
    reducoes,                 \* list reducoes
    custos,                   \* list custos, entries <<num, den>>
    n_sucesso,                \* counter n_sucesso
    rng_entrada,              \* the generator state the call found on entry
    historico,                \* per draw attempted: generator state, df_sim, result
    retorno_mc,               \* the returned ResultadoMonteCarlo
    anterior_mc               \* what the previous call with these arguments gave

vars_alocacao ==
    <<df_dados, orcamento_disponivel, investimento_minimo_pct,
      investimento_maximo_pct, pc, status, x, alocacao_lista, resultado,
      anterior, chamadas>>

vars_mc ==
    <<orcamento_mc, n_simulacoes, incerteza_elasticidade, incerteza_taxa, seed,
      estado_rng, sorteios, solucoes, pc_mc, i, reducoes, custos, n_sucesso,
      rng_entrada, historico, retorno_mc, anterior_mc>>

\* otimizar_multi_periodo (src/multi_periodo.py); its table is df_dados
VARIABLES
    orcamentos_por_periodo,   \* argument: the budgets B_1 .. B_T
    fator_acumulacao,         \* argument, in tenths
    depreciacao_anual,        \* argument, in tenths (1 stands for 0.1)
    investimento_min_pct,     \* argument
    investimento_max_pct,     \* argument
    pc_mp,                    \* position of the current call
    status_mp,                \* LpStatus[modelo.status]
    x_mp,                     \* value(x[e, t]) of the solved LP, as x_mp[t][e]
    t_mp,                     \* periods extracted so far
    alocacao_por_periodo,     \* per period, the rows of df_periodo
    reducao_por_periodo,      \* per period, round(reducao_periodo, 0)
    trajetoria_lista,         \* per period, the aggregate row
    orcamento_total_mp,       \* accumulator orcamento_total
    reducao_total_mp,         \* accumulator reducao_total, a numerator
    resultado_mp,             \* the returned ResultadoMultiPeriodo
    anterior_mp               \* the arguments and the outcome of the previous call

vars_mp ==
    <<orcamentos_por_periodo, fator_acumulacao, depreciacao_anual,
      investimento_min_pct, investimento_max_pct, pc_mp, status_mp, x_mp, t_mp,
      alocacao_por_periodo, reducao_por_periodo, trajetoria_lista,
      orcamento_total_mp, reducao_total_mp, resultado_mp, anterior_mp>>

\* comparar_estrategias (src/multi_periodo.py); its table is df_dados and its
\* calls of otimizar_multi_periodo use the variables above
VARIABLES
    orcamento_total_ce,       \* argument orcamento_total
    n_periodos_ce,            \* argument n_periodos
    pc_ce,                    \* position of the current call
    estrategias_ce,           \* dict estrategias: name -> list of <<num, den>>
    i_ce,                     \* entries of the dict the loop has been through
    historico_ce,             \* per entry: its name and the status of its solve
    resultados_ce             \* list resultados, the rows of the returned table

vars_ce ==
    <<orcamento_total_ce, n_periodos_ce, pc_ce, estrategias_ce, i_ce,
      historico_ce, resultados_ce>>

\* the sensitivity operations (src/sensibilidade.py) and the elasticity
\* scenarios (src/monte_carlo.py); their table is df_dados
VARIABLES
    operacao,                 \* the operation that was called
    orcamento_sens,           \* argument orcamento / orcamento_base, in mils
    estado_alvo,              \* argument of analisar_sensibilidade_elasticidade
    variacoes_pct,            \* argument variacoes_pct
    orcamentos_cenarios,      \* argument orcamentos of analisar_cenarios
    delta_sens,               \* argument delta of calcular_shadow_prices, in mils
    pc_sens,                  \* position of the current call
    k_sens,                   \* solves of the loop made so far
    resultado_base,           \* the ResultadoOtimizacao of the base solve
    invest_base,              \* investment of estado_alvo in the base solve
    solves_sens,              \* per solve: the table and budget handed over, the result
    linhas_sens,              \* the rows appended so far
    retorno_sens              \* what the call returned or raised

vars_sens ==
    <<operacao, orcamento_sens, estado_alvo, variacoes_pct, orcamentos_cenarios,
      delta_sens, pc_sens, k_sens, resultado_base, invest_base, solves_sens,
      linhas_sens, retorno_sens>>

vars_outros == <<vars_ce, vars_sens>>

vars == <<vars_alocacao, vars_mc, vars_mp, vars_outros>>

----------------------------------------------------------------------------
(* Inputs *)

Siglas == {"SP", "RJ"}

ColunasExigidas == {"orcamento_2022_milhoes", "elasticidade", "mortes_violentas"}

MortesVals == {0, 30, 60}
OrcamentoVals == {120, 240}
ElasticidadeVals == {10, 30}

LinhasCompletas ==
    [mortes_violentas : MortesVals, orcamento_2022_milhoes : OrcamentoVals,
     elasticidade : ElasticidadeVals, nulos : {{}}]

\* rows with one required column missing (NaN); the other cells are arbitrary
LinhasIncompletas ==
    [mortes_violentas : {30}, orcamento_2022_milhoes : {120},
     elasticidade : {10}, nulos : {{c} : c \in ColunasExigidas}]

Tabelas ==
    UNION {[S -> LinhasCompletas \cup LinhasIncompletas] : S \in SUBSET Siglas}

PctMinVals == {0, 50}
PctMaxVals == {0, 5, 50, 400}
OrcamentoDisponivelVals == {0, 6, 81, 90, 600}

MaxChamadas == 2

----------------------------------------------------------------------------
(* Arithmetic helpers *)

RECURSIVE Soma(_, _)
Soma(f, S) ==
    IF S = {} THEN 0
    ELSE LET e == CHOOSE s \in S : TRUE IN f[e] + Soma(f, S \ {e})

RECURSIVE Produto(_, _)
Produto(f, S) ==
    IF S = {} THEN 1
    ELSE LET e == CHOOSE s \in S : TRUE IN f[e] * Produto(f, S \ {e})

\* Python's round(v) of the exact fraction num/den (den > 0): nearest
\* integer, a tie going to the even one.
RoundInt(num, den) ==
    LET q == num \div den
        r == num % den
    IN  IF 2 * r < den THEN q
        ELSE IF 2 * r > den THEN q + 1
        ELSE IF q % 2 = 0 THEN q ELSE q + 1

\* Python's round(v, n) of a float, as the number of units of 10^-n: the
\* nearest one; at an exact decimal tie the binary value of the float decides,
\* so either neighbour can come out.
RoundDec(num, den) ==
    LET q == num \div den
        r == num % den
    IN  IF 2 * r < den THEN {q}
        ELSE IF 2 * r > den THEN {q + 1}
        ELSE {q, q + 1}

RECURSIVE Pot10(_)
Pot10(n) == IF n = 0 THEN 1 ELSE 10 * Pot10(n - 1)

\* round(v, casas) of the fraction num/den, counted in units of 10^-casas
\* (one decimal digit is split off at a time)
RECURSIVE RoundCasas(_, _, _)
RoundCasas(num, den, casas) ==
    IF casas = 0 THEN RoundDec(num, den)
    ELSE {(num \div den) * Pot10(casas) + q :
            q \in RoundCasas((num % den) * 10, den, casas - 1)}

----------------------------------------------------------------------------
(* otimizar_alocacao: data preparation *)

\* df_dados.dropna(subset=[...]).copy(): the rows with no required cell missing
DropNa(tabela) ==
    [e \in {s \in DOMAIN tabela : tabela[s].nulos \cap ColunasExigidas = {}}
        |-> tabela[e]]

\* inv_min[e] = orcamento_atual[e] * investimento_minimo_pct / 100
\* (exact for the budgets and percentages enumerated above)
InvMin(df, min_pct) ==
    [e \in DOMAIN df |-> (df[e].orcamento_2022_milhoes * min_pct) \div 100]

\* mutant of InvMax: an upper bound below the lower bound is raised to it
InvMaxClampado(df, max_pct) ==
    [e \in DOMAIN df |->
        IF max_pct < investimento_minimo_pct
        THEN (df[e].orcamento_2022_milhoes * investimento_minimo_pct) \div 100
        ELSE (df[e].orcamento_2022_milhoes * max_pct) \div 100]

\* inv_max[e] = orcamento_atual[e] * investimento_maximo_pct / 100
InvMax(df, max_pct) ==
    [e \in DOMAIN df |-> (df[e].orcamento_2022_milhoes * max_pct) \div 100]

----------------------------------------------------------------------------
(* otimizar_alocacao: the linear program and its solution *)

\* mutant of CoefNum: the coefficient is not divided by orcamento_atual[e]
CoefNumSemOrcamento(df, e) ==
    df[e].mortes_violentas * df[e].elasticidade

\* Objective coefficient of x[e], mortes[e]*elasticidade[e]/orcamento_atual[e],
\* as a numerator over the common denominator DenObjetivo(df).
CoefNum(df, e) ==
    df[e].mortes_violentas * df[e].elasticidade
        * Produto([f \in DOMAIN df |-> df[f].orcamento_2022_milhoes],
                  DOMAIN df \ {e})

DenObjetivo(df) ==
    100 * Produto([f \in DOMAIN df |-> df[f].orcamento_2022_milhoes], DOMAIN df)

\* lpSum([-mortes[e] * elasticidade[e] * x[e] / orcamento_atual[e]]),
\* numerator over DenObjetivo(df)
ObjetivoNum(df, v) ==
    0 - Soma([e \in DOMAIN df |-> CoefNum(df, e) * v[e]], DOMAIN df)

\* mutant of Viavel: the variables are created without upBound
ViavelSemTeto(v, lo, hi, orcamento) ==
    /\ \A e \in DOMAIN lo : lo[e] <= v[e]
    /\ Soma(v, DOMAIN lo) <= orcamento

\* mutant of Viavel: the budget restriction is not added to the model
ViavelSemOrcamento(v, lo, hi, orcamento) ==
    \A e \in DOMAIN lo : lo[e] <= v[e] /\ v[e] <= hi[e]

\* LpVariable(lowBound=inv_min[e], upBound=inv_max[e]) for every state and
\* lpSum(x) <= orcamento_disponivel
Viavel(v, lo, hi, orcamento) ==
    /\ \A e \in DOMAIN lo : lo[e] <= v[e] /\ v[e] <= hi[e]
    /\ Soma(v, DOMAIN lo) <= orcamento

\* The basic solutions of the LP: every variable at one of its bounds, except
\* at most one that takes up what the budget row leaves.
Basicas(lo, hi, orcamento) ==
    LET nosLimites ==
            {[e \in DOMAIN lo |-> IF e \in S THEN hi[e] ELSE lo[e]] :
                S \in SUBSET DOMAIN lo}
    IN  nosLimites \cup
        {[v EXCEPT ![e] = orcamento - Soma(v, DOMAIN lo \ {e})] :
            v \in nosLimites, e \in DOMAIN lo}

Viaveis(lo, hi, orcamento) ==
    {v \in Basicas(lo, hi, orcamento) : Viavel(v, lo, hi, orcamento)}

\* mutant of Otimas: the solver stops at any basic feasible solution
OtimasQualquerViavel(df, lo, hi, orcamento) ==
    Viaveis(lo, hi, orcamento)

\* modelo.solve(solver): the simplex solver ends at a basic feasible solution
\* of least objective value; which one, when several are optimal, is the
\* solver's choice.
Otimas(df, lo, hi, orcamento) ==
    {v \in Viaveis(lo, hi, orcamento) :
        \A w \in Viaveis(lo, hi, orcamento) :
            ObjetivoNum(df, v) <= ObjetivoNum(df, w)}

----------------------------------------------------------------------------
(* otimizar_alocacao: extraction of the results *)

\* reducao = crimes_antes * elasticidade[e] * investimento / orcamento_atual[e]
ReducaoNum(df, e, investimento) ==
    df[e].mortes_violentas * df[e].elasticidade * investimento

ReducaoDen(df, e) == 100 * df[e].orcamento_2022_milhoes

\* round(investimento, 2), in mils
Round2(investimento) == {10 * q : q \in RoundDec(investimento, 10)}

\* mutant of Linhas: the percentage is taken from the rounded reduction
LinhasPercentualDoArredondado(df, e, investimento) ==
    LET crimes_antes == df[e].mortes_violentas
        num == ReducaoNum(df, e, investimento)
        den == ReducaoDen(df, e)
    IN  [investimento_milhoes : Round2(investimento),
         mortes_antes : {crimes_antes},
         mortes_depois : {RoundInt(crimes_antes * den - num, den)},
         reducao_mortes : {RoundInt(num, den)},
         reducao_percentual :
            IF crimes_antes > 0
            THEN RoundCasas(RoundInt(num, den) * 100, crimes_antes, 2)
            ELSE {0}]

\* the dictionaries the loop may append for state e
Linhas(df, e, investimento) ==
    LET crimes_antes == df[e].mortes_violentas
        num == ReducaoNum(df, e, investimento)
        den == ReducaoDen(df, e)
    IN  [investimento_milhoes : Round2(investimento),
         mortes_antes : {crimes_antes},
         mortes_depois : {RoundInt(crimes_antes * den - num, den)},
         reducao_mortes : {RoundInt(num, den)},
         reducao_percentual :
            IF crimes_antes > 0
            THEN RoundCasas(num * 100, den * crimes_antes, 2)
            ELSE {0}]

\* mutant of EnvelopeNaoOtimo: the budget is reported as used
EnvelopeNaoOtimoComOrcamento(st) ==
    [status |-> st, orcamento_usado |-> orcamento_disponivel,
     reducao_crimes |-> 0, reducao_percentual |-> 0, alocacao |-> <<>>,
     fo_valor |-> 0]

\* the ResultadoOtimizacao returned when status != 'Optimal'
EnvelopeNaoOtimo(st) ==
    [status |-> st, orcamento_usado |-> 0, reducao_crimes |-> 0,
     reducao_percentual |-> 0, alocacao |-> <<>>, fo_valor |-> 0]

\* mutant of Envelopes: the total is summed over the mortes_depois column
EnvelopesSomaMortesDepois(df, st, lista, v) ==
    LET estados == DOMAIN lista
        orcamento_usado ==
            Soma([e \in estados |-> lista[e].investimento_milhoes], estados)
        reducao_total ==
            Soma([e \in estados |-> lista[e].mortes_depois], estados)
        mortes_antes_total ==
            Soma([e \in estados |-> lista[e].mortes_antes], estados)
    IN  [status : {st},
         orcamento_usado : Round2(orcamento_usado),
         reducao_crimes : {reducao_total},
         reducao_percentual :
            IF mortes_antes_total > 0
            THEN RoundCasas(reducao_total * 100, mortes_antes_total, 2)
            ELSE {0},
         alocacao : {lista},
         fo_valor : RoundCasas(ObjetivoNum(df, v), DenObjetivo(df), 4)]

\* the aggregate metrics and the ResultadoOtimizacao of an Optimal solve
Envelopes(df, st, lista, v) ==
    LET estados == DOMAIN lista
        orcamento_usado ==
            Soma([e \in estados |-> lista[e].investimento_milhoes], estados)
        reducao_total ==
            Soma([e \in estados |-> lista[e].reducao_mortes], estados)
        mortes_antes_total ==
            Soma([e \in estados |-> lista[e].mortes_antes], estados)
    IN  [status : {st},
         orcamento_usado : Round2(orcamento_usado),
         reducao_crimes : {reducao_total},
         reducao_percentual :
            IF mortes_antes_total > 0
            THEN RoundCasas(reducao_total * 100, mortes_antes_total, 2)
            ELSE {0},
         alocacao : {lista},
         fo_valor : RoundCasas(ObjetivoNum(df, v), DenObjetivo(df), 4)]

SemResultado == EnvelopeNaoOtimo("")

----------------------------------------------------------------------------
(* The calls *)

\* a ResultadoMultiPeriodo not yet produced
SemResultadoMP ==
    [status |-> "", n_periodos |-> 0, orcamento_total_usado |-> 0,
     reducao_total_crimes |-> 0, alocacao_por_periodo |-> <<>>,
     reducao_por_periodo |-> <<>>, trajetoria_crimes |-> <<>>]

\* no multi-period call was made before
SemAnteriorMP ==
    [pc_mp |-> "", orcamentos_por_periodo |-> <<>>, fator_acumulacao |-> 0,
     x_mp |-> <<>>, reducao_total_mp |-> 0, resultado_mp |-> SemResultadoMP]

\* no call of comparar_estrategias is in progress
ComparacaoParada ==
    /\ orcamento_total_ce = 0
    /\ n_periodos_ce = 0
    /\ pc_ce = ""
    /\ estrategias_ce = <<>>
    /\ i_ce = 0
    /\ historico_ce = <<>>
    /\ resultados_ce = <<>>

\* no sensitivity operation is in progress
SensibilidadeParada ==
    /\ operacao = ""
    /\ orcamento_sens = 0
    /\ estado_alvo = ""
    /\ variacoes_pct = <<>>
    /\ orcamentos_cenarios = <<>>
    /\ delta_sens = 0
    /\ pc_sens = ""
    /\ k_sens = 0
    /\ resultado_base = SemResultado
    /\ invest_base = 0
    /\ solves_sens = <<>>
    /\ linhas_sens = <<>>
    /\ retorno_sens = <<>>

OutrosParados == ComparacaoParada /\ SensibilidadeParada

\* no multi-period call is in progress
MultiPeriodoParado ==
    /\ orcamentos_por_periodo = <<>>
    /\ fator_acumulacao = 0
    /\ depreciacao_anual = 0
    /\ investimento_min_pct = 0
    /\ investimento_max_pct = 0
    /\ pc_mp = ""
    /\ status_mp = ""
    /\ x_mp = <<>>
    /\ t_mp = 0
    /\ alocacao_por_periodo = <<>>
    /\ reducao_por_periodo = <<>>
    /\ trajetoria_lista = <<>>
    /\ orcamento_total_mp = 0
    /\ reducao_total_mp = 0
    /\ resultado_mp = SemResultadoMP
    /\ anterior_mp = SemAnteriorMP

\* a ResultadoMonteCarlo not yet produced
SemRetornoMC ==
    [n_simulacoes |-> 0, n_sucesso |-> 0, media_reducao |-> <<>>,
     distribuicao_reducao |-> <<>>, distribuicao_custo |-> <<>>]

\* no Monte Carlo run is in progress
MonteCarloParado ==
    /\ orcamento_mc = 0
    /\ n_simulacoes = 0
    /\ incerteza_elasticidade = 0
    /\ incerteza_taxa = 0
    /\ seed = <<>>
    /\ estado_rng = [semente |-> 0, pos |-> 0]
    /\ sorteios = <<>>
    /\ solucoes = <<>>
    /\ pc_mc = ""
    /\ i = 0
    /\ reducoes = <<>>
    /\ custos = <<>>
    /\ n_sucesso = 0
    /\ rng_entrada = [semente |-> 0, pos |-> 0]
    /\ historico = <<>>
    /\ retorno_mc = SemRetornoMC
    /\ anterior_mc = [pc_mc |-> "", rng_entrada |-> [semente |-> 0, pos |-> 0],
                      retorno_mc |-> SemRetornoMC]

Init ==
    /\ MonteCarloParado
    /\ MultiPeriodoParado
    /\ df_dados \in Tabelas
    /\ orcamento_disponivel \in OrcamentoDisponivelVals
    /\ investimento_minimo_pct \in PctMinVals
    /\ investimento_maximo_pct \in PctMaxVals
    /\ OutrosParados
    /\ pc = "inicio"
    /\ status = ""
    /\ x = <<>>
    /\ alocacao_lista = <<>>
    /\ resultado = SemResultado
    /\ anterior = [pc |-> "", orcamento_disponivel |-> 0, resultado |-> SemResultado]
    /\ chamadas = 1

\* lines 93-194: filter the table, build the LP, solve it, read the status
Resolver ==
    /\ UNCHANGED <<vars_mc, vars_mp, vars_outros>>
    /\ pc = "inicio"
    /\ LET df == DropNa(df_dados)
           lo == InvMin(df, investimento_minimo_pct)
           hi == InvMax(df, investimento_maximo_pct)
       IN  \/ /\ Viaveis(lo, hi, orcamento_disponivel) = {}
              /\ status' = "Infeasible"
              /\ x' = <<>>
           \/ \E v \in Otimas(df, lo, hi, orcamento_disponivel) :
                 /\ status' = "Optimal"
                 /\ x' = v
    /\ pc' = "resolvido"
    /\ UNCHANGED <<df_dados, orcamento_disponivel, investimento_minimo_pct,
                   investimento_maximo_pct, alocacao_lista, resultado,
                   anterior, chamadas>>

\* lines 197-205: the early return of a solve that is not Optimal
RetornarNaoOtimo ==
    /\ UNCHANGED <<vars_mc, vars_mp, vars_outros>>
    /\ pc = "resolvido"
    /\ status # "Optimal"
    /\ resultado' = EnvelopeNaoOtimo(status)
    /\ pc' = "retornou"
    /\ UNCHANGED <<df_dados, orcamento_disponivel, investimento_minimo_pct,
                   investimento_maximo_pct, status, x, alocacao_lista,
                   anterior, chamadas>>

\* lines 207-226: one row per state from the solved values
ExtrairLinhas ==
    /\ UNCHANGED <<vars_mc, vars_mp, vars_outros>>
    /\ pc = "resolvido"
    /\ status = "Optimal"
    /\ LET df == DropNa(df_dados)
       IN  \E lista \in [DOMAIN df ->
                            UNION {Linhas(df, e, x[e]) : e \in DOMAIN df}] :
              /\ \A e \in DOMAIN df : lista[e] \in Linhas(df, e, x[e])
              /\ alocacao_lista' = lista
    /\ pc' = "linhas"
    /\ UNCHANGED <<df_dados, orcamento_disponivel, investimento_minimo_pct,
                   investimento_maximo_pct, status, x, resultado, anterior,
                   chamadas>>

\* lines 229-249: merge with the table's columns, aggregate, return.
\* pd.DataFrame([]) has no 'sigla' column, so pd.merge(..., on='sigla')
\* raises KeyError when the loop appended nothing.
Agregar ==
    /\ UNCHANGED <<vars_mc, vars_mp, vars_outros>>
    /\ pc = "linhas"
    /\ \/ /\ DOMAIN alocacao_lista = {}
          /\ pc' = "erro"
          /\ UNCHANGED resultado
       \/ /\ DOMAIN alocacao_lista # {}
          /\ resultado' \in Envelopes(DropNa(df_dados), status, alocacao_lista, x)
          /\ pc' = "retornou"
    /\ UNCHANGED <<df_dados, orcamento_disponivel, investimento_minimo_pct,
                   investimento_maximo_pct, status, x, alocacao_lista,
                   anterior, chamadas>>

\* the caller calls again on the same table with the same percentages and
\* another budget (what the sensitivity analyses do)
NovaChamada ==
    /\ UNCHANGED <<vars_mc, vars_mp, vars_outros>>
    /\ pc \in {"retornou", "erro"}
    /\ chamadas < MaxChamadas
    /\ anterior' = [pc |-> pc, orcamento_disponivel |-> orcamento_disponivel,
                    resultado |-> resultado]
    /\ orcamento_disponivel' \in OrcamentoDisponivelVals
    /\ chamadas' = chamadas + 1
    /\ pc' = "inicio"
    /\ status' = ""
    /\ x' = <<>>
    /\ alocacao_lista' = <<>>
    /\ resultado' = SemResultado
    /\ UNCHANGED <<df_dados, investimento_minimo_pct, investimento_maximo_pct>>

Next ==
    \/ Resolver
    \/ RetornarNaoOtimo
    \/ ExtrairLinhas
    \/ Agregar
    \/ NovaChamada

Spec == Init /\ [][Next]_vars

----------------------------------------------------------------------------
(* What the claims speak about *)

\* the rows that enter the LP in the current call
df == DropNa(df_dados)
estados == DOMAIN df
inv_min == InvMin(df, investimento_minimo_pct)
inv_max == InvMax(df, investimento_maximo_pct)

Retornou == pc = "retornou"
RetornouOtimo == pc = "retornou" /\ resultado.status = "Optimal"

\* e's ratio elasticidade*mortes/orcamento_atual is strictly above f's
RazaoMaior(e, f) ==
    df[e].elasticidade * df[e].mortes_violentas * df[f].orcamento_2022_milhoes
        > df[f].elasticidade * df[f].mortes_violentas * df[e].orcamento_2022_milhoes

RazaoPositiva(e) == df[e].elasticidade * df[e].mortes_violentas > 0

----------------------------------------------------------------------------
(* C1 *)

\* C1 (as claimed): whenever a call with a budget >= 0 returns, the reported
\* orcamento_usado (the sum of the reported per-state investments) is at most
\* orcamento_disponivel, for Optimal results and for the zeroed envelope.
C1_OrcamentoUsadoDentroDoOrcamento ==
    (Retornou /\ orcamento_disponivel >= 0)
        => resultado.orcamento_usado <= orcamento_disponivel

----------------------------------------------------------------------------
(* C2 *)

Terminou == pc \in {"retornou", "erro"}

Abs(n) == IF n < 0 THEN 0 - n ELSE n

\* allocations inside the box that need not be basic: every variable at a
\* bound, or a quarter, a half or three quarters of the way up
PontosDeTeste ==
    {v \in [estados -> UNION {{inv_min[e] + ((inv_max[e] - inv_min[e]) * k) \div 4
                                 : k \in 0..4} : e \in estados}] :
        /\ \A e \in estados :
              \E k \in 0..4 :
                 v[e] = inv_min[e] + ((inv_max[e] - inv_min[e]) * k) \div 4
        /\ Viavel(v, inv_min, inv_max, orcamento_disponivel)}

\* no tested feasible allocation reduces more, and a state is above its lower
\* bound only if every state of strictly higher ratio is at its upper bound
SolucaoOtima ==
    /\ Viavel(x, inv_min, inv_max, orcamento_disponivel)
    /\ \A v \in PontosDeTeste : ObjetivoNum(df, x) <= ObjetivoNum(df, v)
    /\ \A e, f \in estados :
          (x[e] > inv_min[e] /\ RazaoMaior(f, e)) => x[f] = inv_max[f]

\* a state of highest ratio receives a strictly positive investment within
\* its bounds
RazaoMaximaRecebe ==
    \E e \in estados :
       /\ \A f \in estados : ~RazaoMaior(f, e)
       /\ x[e] > 0
       /\ inv_min[e] <= x[e] /\ x[e] <= inv_max[e]

\* C2 (as claimed): in every Optimal solve (read right after the solver
\* returns) the allocation is optimal for the
\* LP, and a highest-ratio state receives a strictly positive investment
\* within its bounds whenever budget > 0 and max_pct > 0.
C2_Original ==
    (pc = "resolvido" /\ status = "Optimal") =>
       /\ SolucaoOtima
       /\ (estados # {} /\ orcamento_disponivel > 0 /\ investimento_maximo_pct > 0)
             => RazaoMaximaRecebe

\* C2 (amended): in every Optimal solve the allocation is optimal for the LP,
\* and a highest-ratio state receives a strictly positive investment within
\* its bounds whenever budget > 0, max_pct > 0 and that highest ratio is
\* positive (some state has deaths > 0).
C2_AlocacaoOtima ==
    (pc = "resolvido" /\ status = "Optimal") =>
       /\ SolucaoOtima
       /\ (/\ orcamento_disponivel > 0
           /\ investimento_maximo_pct > 0
           /\ \E e \in estados : RazaoPositiva(e))
             => RazaoMaximaRecebe

\* two states of different positive ratio, the budget short of both upper
\* bounds: the better one is filled first
C2_Witness ==
    /\ pc = "resolvido"
    /\ status = "Optimal"
    /\ orcamento_disponivel > 0
    /\ \E e, f \in estados :
          /\ RazaoMaior(e, f) /\ RazaoPositiva(f)
          /\ x[e] = inv_max[e]
          /\ x[f] > inv_min[f] /\ x[f] < inv_max[f]

----------------------------------------------------------------------------
(* C3 *)

\* the previous call on this table and this one both returned Optimal, and
\* this one had the larger budget
DoisOtimosCrescentes ==
    /\ RetornouOtimo
    /\ anterior.pc = "retornou"
    /\ anterior.resultado.status = "Optimal"
    /\ anterior.orcamento_disponivel < orcamento_disponivel

RazoesDistintas ==
    \A e, f \in estados : e # f => (RazaoMaior(e, f) \/ RazaoMaior(f, e))

\* C3 (as claimed): for B1 < B2 on the same table and percentages, both
\* Optimal, reducao_crimes at B2 is >= reducao_crimes at B1.
C3_Original ==
    DoisOtimosCrescentes
        => resultado.reducao_crimes >= anterior.resultado.reducao_crimes

\* C3 (amended): the same, for tables in which no two states have the same
\* ratio elasticity*deaths/current_budget (the LP optimum then fixes every
\* state's reduction).
C3_ReducaoMonotona ==
    (DoisOtimosCrescentes /\ RazoesDistintas)
        => resultado.reducao_crimes >= anterior.resultado.reducao_crimes

C3_Witness ==
    /\ DoisOtimosCrescentes
    /\ RazoesDistintas
    /\ Cardinality(estados) = 2
    /\ resultado.reducao_crimes > anterior.resultado.reducao_crimes
    /\ anterior.resultado.reducao_crimes > 0

----------------------------------------------------------------------------
(* C4 *)

\* C4 (as claimed): in every Optimal result each reported investment is >= 0
\* and within [inv_min, inv_max] of its state.
C4_Original ==
    RetornouOtimo =>
        \A e \in estados :
           /\ resultado.alocacao[e].investimento_milhoes >= 0
           /\ inv_min[e] <= resultado.alocacao[e].investimento_milhoes
           /\ resultado.alocacao[e].investimento_milhoes <= inv_max[e]

\* C4 (amended): in every Optimal result each state's solved investment is
\* >= 0 and within [inv_min, inv_max]; the reported investment is that value
\* rounded to 2 decimals, so it is >= 0 and at most 0.005 outside the bounds.
C4_InvestimentoNosLimites ==
    RetornouOtimo =>
        \A e \in estados :
           /\ x[e] >= 0
           /\ inv_min[e] <= x[e] /\ x[e] <= inv_max[e]
           /\ resultado.alocacao[e].investimento_milhoes >= 0
           /\ resultado.alocacao[e].investimento_milhoes % 10 = 0
           /\ Abs(resultado.alocacao[e].investimento_milhoes - x[e]) <= 5

\* a state at an upper bound that has a third decimal
C4_Witness ==
    /\ RetornouOtimo
    /\ \E e \in estados :
          /\ x[e] = inv_max[e]
          /\ x[e] % 10 # 0
          /\ resultado.alocacao[e].investimento_milhoes > inv_max[e]

----------------------------------------------------------------------------
(* C5 *)

\* C5 (as claimed): in every Optimal result mortes_depois >= 0 for every
\* state.
C5_MortesDepoisNaoNegativas ==
    RetornouOtimo =>
        \A e \in estados : resultado.alocacao[e].mortes_depois >= 0

----------------------------------------------------------------------------
(* C6 *)

\* C6: when min_pct > max_pct and the table has a usable row, the solve is
\* not Optimal and the call returns that status with no allocation.
C6_LimitesInvertidosNaoOtimo ==
    (/\ investimento_minimo_pct > investimento_maximo_pct
     /\ estados # {})
        => /\ status # "Optimal"
           /\ pc \notin {"linhas", "erro"}
           /\ Retornou => (/\ resultado.status # "Optimal"
                           /\ resultado.status = status
                           /\ resultado.alocacao = <<>>)

C6_Witness ==
    /\ Retornou
    /\ investimento_minimo_pct > investimento_maximo_pct
    /\ investimento_maximo_pct > 0
    /\ orcamento_disponivel > 0
    /\ estados # {}

----------------------------------------------------------------------------
(* C7 *)

\* C7: with orcamento_disponivel = 0 and min_pct = 0, on a table with at
\* least one usable row, the call returns Optimal with every investment 0
\* and reducao_crimes 0.
C7_OrcamentoZero ==
    (/\ Terminou
     /\ orcamento_disponivel = 0
     /\ investimento_minimo_pct = 0
     /\ estados # {})
        => /\ RetornouOtimo
           /\ \A e \in estados :
                 /\ x[e] = 0
                 /\ resultado.alocacao[e].investimento_milhoes = 0
                 /\ resultado.alocacao[e].reducao_mortes = 0
           /\ resultado.orcamento_usado = 0
           /\ resultado.reducao_crimes = 0

C7_Witness ==
    /\ RetornouOtimo
    /\ orcamento_disponivel = 0
    /\ investimento_minimo_pct = 0
    /\ investimento_maximo_pct > 0
    /\ \E e \in estados : RazaoPositiva(e)

----------------------------------------------------------------------------
(* C8 *)

\* C8: a solve whose status is not Optimal returns, without raising, the
\* solver's status string with zero totals and an empty allocation table.
C8_EnvelopeZerado ==
    (status \notin {"", "Optimal"})
        => /\ pc \in {"resolvido", "retornou"}
           /\ Retornou =>
                 resultado = [status |-> status, orcamento_usado |-> 0,
                              reducao_crimes |-> 0, reducao_percentual |-> 0,
                              alocacao |-> <<>>, fo_valor |-> 0]

C8_Witness ==
    /\ Retornou
    /\ status = "Infeasible"
    /\ investimento_minimo_pct <= investimento_maximo_pct

----------------------------------------------------------------------------
(* C9 *)

\* C9 (as claimed): on a table with no usable rows the call does not raise
\* and returns an empty allocation with zero totals.
C9_TabelaVazia ==
    (Terminou /\ estados = {})
        => /\ Retornou
           /\ resultado.alocacao = <<>>
           /\ resultado.orcamento_usado = 0
           /\ resultado.reducao_crimes = 0

----------------------------------------------------------------------------
(* C10 *)

\* C10 (as claimed): in every row of an Optimal table reducao_percentual is
\* reducao_mortes / mortes_antes * 100 up to the 2-decimal rounding, and 0
\* when mortes_antes is 0.
C10_Original ==
    RetornouOtimo =>
        \A e \in estados :
           LET l == resultado.alocacao[e]
           IN  IF l.mortes_antes = 0 THEN l.reducao_percentual = 0
               ELSE 2 * Abs(l.reducao_percentual * l.mortes_antes
                               - 100 * 100 * l.reducao_mortes)
                        <= l.mortes_antes

\* C10 (amended): reducao_percentual is the unrounded reduction over
\* mortes_antes times 100, that is elasticity * investment / current_budget
\* * 100, rounded to 2 decimals, and 0 when mortes_antes is 0; it is within
\* 50 / mortes_antes + 0.005 of reducao_mortes / mortes_antes * 100.
C10_PercentualDaReducaoExata ==
    RetornouOtimo =>
        \A e \in estados :
           LET l == resultado.alocacao[e]
           IN  IF l.mortes_antes = 0 THEN l.reducao_percentual = 0
               ELSE /\ 2 * Abs(l.reducao_percentual * df[e].orcamento_2022_milhoes
                                  - 100 * df[e].elasticidade * x[e])
                          <= df[e].orcamento_2022_milhoes
                    /\ 2 * Abs(l.reducao_percentual * l.mortes_antes
                                  - 100 * 100 * l.reducao_mortes)
                          <= 100 * 100 + l.mortes_antes

\* a row whose percentage is not the ratio of its two reported counts, and a
\* row without deaths
C10_Witness ==
    /\ RetornouOtimo
    /\ \E e, f \in estados :
          /\ resultado.alocacao[e].mortes_antes > 0
          /\ resultado.alocacao[e].reducao_percentual > 0
          /\ resultado.alocacao[e].reducao_mortes = 0
          /\ resultado.alocacao[f].mortes_antes = 0
          /\ x[f] > 0

----------------------------------------------------------------------------
(* C11 *)

\* min_pct = 0 and every state's coefficient strictly positive
SemMinimosCoeficientesPositivos ==
    /\ investimento_minimo_pct = 0
    /\ \A e \in estados : RazaoPositiva(e)

\* C11 (as claimed): with min_pct = 0 and every coefficient strictly
\* positive, an Optimal result spends the full budget: orcamento_usado equals
\* orcamento_disponivel.
C11_Original ==
    (RetornouOtimo /\ SemMinimosCoeficientesPositivos)
        => resultado.orcamento_usado = orcamento_disponivel

\* C11 (amended): with min_pct = 0 and every coefficient strictly positive,
\* the solved investments of an Optimal result sum to the budget when the
\* budget is at most the sum of the upper bounds inv_max, and to that sum of
\* upper bounds otherwise; the reported orcamento_usado is the sum of the
\* investments rounded to 2 decimals, within 0.005 per state of it.
C11_GastaOrcamentoOuTetos ==
    (RetornouOtimo /\ SemMinimosCoeficientesPositivos)
        => /\ Soma(x, estados) =
                 IF orcamento_disponivel <= Soma(inv_max, estados)
                 THEN orcamento_disponivel
                 ELSE Soma(inv_max, estados)
           /\ Abs(resultado.orcamento_usado - Soma(x, estados))
                 <= 5 * Cardinality(estados)

\* the budget is above what the upper bounds let the two states absorb
C11_Witness ==
    /\ RetornouOtimo
    /\ SemMinimosCoeficientesPositivos
    /\ Cardinality(estados) = 2
    /\ investimento_maximo_pct > 0
    /\ orcamento_disponivel > Soma(inv_max, estados)
    /\ resultado.orcamento_usado < orcamento_disponivel

----------------------------------------------------------------------------
(* Monte Carlo (src/monte_carlo.py): inputs *)

\* the order of df.index
OrdemSiglas == <<"SP", "RJ">>

LinhasMC ==
    [mortes_violentas : {0, 30}, orcamento_2022_milhoes : {120},
     elasticidade : ElasticidadeVals, nulos : {{}}]
    \cup LinhasIncompletas

LinhaSP ==
    [mortes_violentas |-> 30, orcamento_2022_milhoes |-> 120,
     elasticidade |-> 10, nulos |-> {}]

\* a second state of the same ratio deaths*elasticity/current_budget
LinhaRJ ==
    [mortes_violentas |-> 60, orcamento_2022_milhoes |-> 240,
     elasticidade |-> 10, nulos |-> {}]

LinhaRJSemElasticidade ==
    [mortes_violentas |-> 30, orcamento_2022_milhoes |-> 120,
     elasticidade |-> 10, nulos |-> {"elasticidade"}]

\* no row, one row, or LinhaSP followed by a second row
TabelasMC ==
    {t \in Tabelas :
        IF "RJ" \in DOMAIN t
        THEN /\ "SP" \in DOMAIN t
             /\ t["SP"] = LinhaSP
             /\ t["RJ"] \in {LinhaRJ, LinhaRJSemElasticidade}
        ELSE \A e \in DOMAIN t : t[e] \in LinhasMC}

OrcamentoMCVals == {0 - 10, 0, 90}
\* <<incerteza_elasticidade, incerteza_taxa>>, in percent
IncertezaVals == {<<20, 10>>, <<200, 9>>}
SeedVals == {<<>>, <<0>>, <<1>>}
MaxSimulacoes == 2

\* the standard normal deviates a draw may give
ZVals == {0 - 1, 1}

\* numbers naming the generator states that no np.random.seed of this model
\* produced; nothing is known about the deviates they give
SementesAmbiente == {0 - 1, 0 - 2}

EstadosAmbiente == [semente : SementesAmbiente, pos : {0}]

----------------------------------------------------------------------------
(* simular_parametros *)

\* mutant of Semear: np.random.seed leaves the generator where it was
SemearSemEfeito(estado, s) == estado

\* "if seed is not None: np.random.seed(seed)"
Semear(estado, s) ==
    IF s = <<>> THEN estado ELSE [semente |-> s[1], pos |-> 0]

\* "seed=seed + i if seed else None": None and 0 are both falsy
SeedDoSorteio(s, k) ==
    IF s # <<>> /\ s[1] # 0 THEN <<s[1] + k>> ELSE <<>>

\* the rows of df.index, in order, whose cell in column c is not NaN
ComValor(tabela, c) ==
    SelectSeq(OrdemSiglas,
              LAMBDA e : e \in DOMAIN tabela /\ c \notin tabela[e].nulos)

PosicaoEm(seq, e) == CHOOSE k \in 1..Len(seq) : seq[k] = e

\* the number of np.random.normal calls one simular_parametros makes
NumSorteios(tabela) ==
    Len(ComValor(tabela, "elasticidade"))
        + Len(ComValor(tabela, "mortes_violentas"))

\* mutant of NovaElasticidade: the sample is stored as drawn
NovaElasticidadeSemClip(elast_base, cv, z) ==
    (100 * elast_base + elast_base * cv * z) \div 100

\* np.clip(np.random.normal(elast_base, elast_base * cv), 0.01, 0.30) for the
\* deviate z, in hundredths (the sample itself is counted in 1/10000; it is a
\* whole number of hundredths for the values enumerated above)
NovaElasticidade(elast_base, cv, z) ==
    LET amostra == 100 * elast_base + elast_base * cv * z
    IN  IF amostra < 100 THEN 1
        ELSE IF amostra > 3000 THEN 30
        ELSE amostra \div 100

\* int(v) of the fraction num/den (den > 0): truncation towards zero
IntPy(num, den) ==
    IF num >= 0 THEN num \div den ELSE 0 - ((0 - num) \div den)

\* mutant of NovasMortes: the sample is rounded to the nearest integer
NovasMortesArredondadas(mortes_base, cv, z) ==
    LET amostra == 100 * mortes_base + mortes_base * cv * z
        arredondada == RoundInt(amostra, 100)
    IN  IF arredondada > 1 THEN arredondada ELSE 1

\* max(1, int(np.random.normal(mortes_base, mortes_base * cv))) for the
\* deviate z (the sample is counted in hundredths of a death)
NovasMortes(mortes_base, cv, z) ==
    LET amostra == 100 * mortes_base + mortes_base * cv * z
        truncada == IntPy(amostra, 100)
    IN  IF truncada > 1 THEN truncada ELSE 1

\* the copy of the table that simular_parametros returns when the generator
\* gives the deviates zs, in the order the two loops ask for them
SimularParametros(tabela, cv_elasticidade, cv_taxa, zs) ==
    LET com_elast == ComValor(tabela, "elasticidade")
        com_mortes == ComValor(tabela, "mortes_violentas")
    IN  [e \in DOMAIN tabela |->
            [tabela[e] EXCEPT
               !.elasticidade =
                  IF "elasticidade" \in tabela[e].nulos THEN @
                  ELSE NovaElasticidade(@, cv_elasticidade,
                                        zs[PosicaoEm(com_elast, e)]),
               !.mortes_violentas =
                  IF "mortes_violentas" \in tabela[e].nulos THEN @
                  ELSE NovasMortes(@, cv_taxa,
                                   zs[Len(com_elast) + PosicaoEm(com_mortes, e)])]]

----------------------------------------------------------------------------
(* executar_monte_carlo *)

\* the call raised instead of returning a ResultadoOtimizacao
Levantou == [erro |-> "KeyError"]

\* the attributes of a ResultadoOtimizacao that executar_monte_carlo reads
Lidos(res) ==
    IF "erro" \in DOMAIN res THEN res
    ELSE [status |-> res.status, reducao_crimes |-> res.reducao_crimes,
          orcamento_usado |-> res.orcamento_usado]

\* what otimizar_alocacao(tabela, orcamento_milhoes, min_pct, max_pct) can
\* give: the envelopes of the actions Resolver to Agregar above
ResultadosAlocacao(tabela, orcamento_milhoes, min_pct, max_pct) ==
    LET d == DropNa(tabela)
        lo == InvMin(d, min_pct)
        hi == InvMax(d, max_pct)
    IN  IF Viaveis(lo, hi, orcamento_milhoes) = {}
        THEN {EnvelopeNaoOtimo("Infeasible")}
        ELSE IF DOMAIN d = {} THEN {Levantou}
        ELSE UNION {
               UNION {Envelopes(d, "Optimal", lista, v) :
                        lista \in {l \in [DOMAIN d ->
                                            UNION {Linhas(d, e, v[e]) : e \in DOMAIN d}] :
                                     \A e \in DOMAIN d : l[e] \in Linhas(d, e, v[e])}} :
               v \in Otimas(d, lo, hi, orcamento_milhoes)}

EOtimo(res) == "erro" \notin DOMAIN res /\ res.status = "Optimal"

\* np.nan as an entry of the list custos; a cost is the pair <<num, den>>
NaN == <<0, 0>>
EhNaN(c) == c = NaN

\* mutant of Custo: the division is made whatever the reduction
CustoSemTeste(res) == <<res.orcamento_usado, res.reducao_crimes>>

\* line 154: orcamento_usado / reducao_crimes if reducao_crimes > 0 else nan
Custo(res) ==
    IF res.reducao_crimes > 0
    THEN <<res.orcamento_usado, res.reducao_crimes>>
    ELSE NaN

\* mutant of ReducoesApos: the reduction is appended whatever the status
ReducoesAposSemTeste(lista, res) == Append(lista, res.reducao_crimes)

\* lines 152-153: reducoes after a draw that gave res
ReducoesApos(lista, res) ==
    IF res.status = "Optimal" THEN Append(lista, res.reducao_crimes) ELSE lista

\* lines 152-155: custos after a draw that gave res
CustosApos(lista, res) ==
    IF res.status = "Optimal" THEN Append(lista, Custo(res)) ELSE lista

\* lines 152-156: n_sucesso after a draw that gave res
SucessosApos(n, res) ==
    IF res.status = "Optimal" THEN n + 1 ELSE n

\* line 163: [c for c in custos if not np.isnan(c)]
SemNaN(lista) == SelectSeq(lista, LAMBDA c : ~EhNaN(c))

RECURSIVE SomaSeq(_)
SomaSeq(seq) == IF seq = <<>> THEN 0 ELSE Head(seq) + SomaSeq(Tail(seq))

\* the other variables of this model do not take part in a Monte Carlo run
AlocacaoParada ==
    /\ orcamento_disponivel = 0
    /\ investimento_minimo_pct = 0
    /\ investimento_maximo_pct = 0
    /\ pc = ""
    /\ status = ""
    /\ x = <<>>
    /\ alocacao_lista = <<>>
    /\ resultado = SemResultado
    /\ anterior = [pc |-> "", orcamento_disponivel |-> 0, resultado |-> SemResultado]

InitMC ==
    /\ AlocacaoParada
    /\ MultiPeriodoParado
    /\ OutrosParados
    /\ df_dados \in TabelasMC
    /\ orcamento_mc \in OrcamentoMCVals
    /\ n_simulacoes \in 0..MaxSimulacoes
    /\ \E cv \in IncertezaVals :
          /\ incerteza_elasticidade = cv[1]
          /\ incerteza_taxa = cv[2]
    /\ seed \in SeedVals
    /\ estado_rng = [semente |-> 0 - 1, pos |-> 0]
    /\ sorteios = <<>>
    /\ solucoes = <<>>
    /\ pc_mc = "inicio"
    /\ i = 0
    /\ reducoes = <<>>
    /\ custos = <<>>
    /\ n_sucesso = 0
    /\ rng_entrada = estado_rng
    /\ historico = <<>>
    /\ retorno_mc = SemRetornoMC
    /\ anterior_mc = [pc_mc |-> "", rng_entrada |-> estado_rng,
                      retorno_mc |-> SemRetornoMC]
    /\ chamadas = 1

\* other code of the process draws random numbers before the call
OutrosSorteios ==
    /\ UNCHANGED <<vars_mp, vars_outros>>
    /\ pc_mc = "inicio"
    /\ estado_rng' \in EstadosAmbiente \ {estado_rng}
    /\ UNCHANGED <<vars_alocacao, orcamento_mc, n_simulacoes,
                   incerteza_elasticidade, incerteza_taxa, seed, sorteios,
                   solucoes, pc_mc, i, reducoes, custos, n_sucesso,
                   rng_entrada, historico, retorno_mc, anterior_mc>>

\* lines 128-133: seed the process generator, start the lists
Iniciar ==
    /\ UNCHANGED <<vars_mp, vars_outros>>
    /\ pc_mc = "inicio"
    /\ rng_entrada' = estado_rng
    /\ estado_rng' = Semear(estado_rng, seed)
    /\ reducoes' = <<>>
    /\ custos' = <<>>
    /\ n_sucesso' = 0
    /\ i' = 0
    /\ pc_mc' = "laco"
    /\ UNCHANGED <<vars_alocacao, orcamento_mc, n_simulacoes,
                   incerteza_elasticidade, incerteza_taxa, seed, sorteios,
                   solucoes, historico, retorno_mc, anterior_mc>>

\* lines 138-156: one pass of the loop.  simular_parametros reseeds when it is
\* given a seed, draws one deviate per recorded cell and perturbs the copy;
\* otimizar_alocacao solves it with the default percentages 0 and 50; an
\* Optimal result is appended.  The seeded generator and the solver are
\* functions of their state and input: what they gave once, they give again
\* (sorteios keeps the deviates of the seeded states, solucoes the solves that
\* had more than one possible outcome).
Sorteio ==
    /\ UNCHANGED <<vars_mp, vars_outros>>
    /\ pc_mc = "laco"
    /\ i < n_simulacoes
    /\ LET rng == Semear(estado_rng, SeedDoSorteio(seed, i))
           k == NumSorteios(df_dados)
           chaves == [j \in 1..k |-> <<rng.semente, rng.pos + j - 1>>]
           novas == IF rng.semente \in SementesAmbiente THEN {}
                    ELSE {chaves[j] : j \in 1..k}
       IN  \E zs \in [1..k -> ZVals] :
              /\ \A j \in 1..k :
                    chaves[j] \in DOMAIN sorteios => zs[j] = sorteios[chaves[j]]
              /\ sorteios' =
                    [c \in DOMAIN sorteios \cup novas |->
                        IF c \in DOMAIN sorteios THEN sorteios[c]
                        ELSE zs[CHOOSE j \in 1..k : chaves[j] = c]]
              /\ estado_rng' = [rng EXCEPT !.pos = @ + k]
              /\ LET df_sim == SimularParametros(df_dados, incerteza_elasticidade,
                                                 incerteza_taxa, zs)
                     possiveis ==
                        {Lidos(r) : r \in ResultadosAlocacao(df_sim, orcamento_mc,
                                                             0, 50)}
                     incertas == IF Cardinality(possiveis) > 1 THEN {df_sim}
                                 ELSE {}
                 IN  \E res \in possiveis :
                        /\ df_sim \in DOMAIN solucoes => res = solucoes[df_sim]
                        /\ solucoes' =
                              [t \in DOMAIN solucoes \cup incertas |->
                                  IF t \in DOMAIN solucoes THEN solucoes[t] ELSE res]
                        /\ historico' =
                              Append(historico,
                                     [rng |-> rng, df_sim |-> df_sim, resultado |-> res])
                        /\ IF "erro" \in DOMAIN res
                           THEN /\ pc_mc' = "erro"
                                /\ UNCHANGED <<i, reducoes, custos, n_sucesso>>
                           ELSE /\ pc_mc' = "laco"
                                /\ i' = i + 1
                                /\ reducoes' = ReducoesApos(reducoes, res)
                                /\ custos' = CustosApos(custos, res)
                                /\ n_sucesso' = SucessosApos(n_sucesso, res)
    /\ UNCHANGED <<vars_alocacao, orcamento_mc, n_simulacoes,
                   incerteza_elasticidade, incerteza_taxa, seed, rng_entrada,
                   retorno_mc, anterior_mc>>

\* lines 161-190: drop the NaN costs, compute the statistics, return.  With
\* no Optimal draw np.mean gives nan, and np.percentile of an empty array
\* raises IndexError in some numpy releases and gives nan in others.  (The
\* standard deviation and the percentiles are not part of this model.)
Estatisticas ==
    /\ UNCHANGED <<vars_mp, vars_outros>>
    /\ pc_mc = "laco"
    /\ i = n_simulacoes
    /\ \/ /\ reducoes = <<>>
          /\ pc_mc' = "erro"
          /\ UNCHANGED retorno_mc
       \/ /\ \E media \in (IF reducoes = <<>> THEN {<<>>}
                           ELSE {<<m>> : m \in RoundCasas(SomaSeq(reducoes),
                                                          Len(reducoes), 1)}) :
                retorno_mc' =
                   [n_simulacoes |-> n_simulacoes,
                    n_sucesso |-> n_sucesso,
                    media_reducao |-> media,
                    distribuicao_reducao |-> reducoes,
                    distribuicao_custo |-> SemNaN(custos)]
          /\ pc_mc' = "retornou"
    /\ UNCHANGED <<vars_alocacao, orcamento_mc, n_simulacoes,
                   incerteza_elasticidade, incerteza_taxa, seed, estado_rng,
                   sorteios, solucoes, i, reducoes, custos, n_sucesso,
                   rng_entrada, historico, anterior_mc>>

\* the caller runs the simulation again with the same arguments
NovaChamadaMC ==
    /\ UNCHANGED <<vars_mp, vars_outros>>
    /\ pc_mc \in {"retornou", "erro"}
    /\ chamadas < MaxChamadas
    /\ anterior_mc' = [pc_mc |-> pc_mc, rng_entrada |-> rng_entrada,
                       retorno_mc |-> retorno_mc]
    /\ chamadas' = chamadas + 1
    /\ pc_mc' = "inicio"
    /\ i' = 0
    /\ reducoes' = <<>>
    /\ custos' = <<>>
    /\ n_sucesso' = 0
    /\ historico' = <<>>
    /\ retorno_mc' = SemRetornoMC
    /\ UNCHANGED <<df_dados, orcamento_disponivel, investimento_minimo_pct,
                   investimento_maximo_pct, pc, status, x, alocacao_lista,
                   resultado, anterior, orcamento_mc, n_simulacoes,
                   incerteza_elasticidade, incerteza_taxa, seed, estado_rng,
                   sorteios, solucoes, rng_entrada>>

NextMC ==
    \/ OutrosSorteios
    \/ Iniciar
    \/ Sorteio
    \/ Estatisticas
    \/ NovaChamadaMC

SpecMC == InitMC /\ [][NextMC]_vars

----------------------------------------------------------------------------
(* C12 *)

\* this call and the previous one, made with the same arguments, returned
DuasChamadasRetornaram ==
    /\ pc_mc = "retornou"
    /\ anterior_mc.pc_mc = "retornou"

\* C12: two calls of executar_monte_carlo with identical table, budget,
\* n_simulacoes, uncertainty coefficients and seed, the seed not None, return
\* identical reduction and cost distributions, whatever the process generator
\* was left at between the two calls.
C12_MesmaSeedMesmasDistribuicoes ==
    (DuasChamadasRetornaram /\ seed # <<>>)
        => /\ retorno_mc.distribuicao_reducao
                 = anterior_mc.retorno_mc.distribuicao_reducao
           /\ retorno_mc.distribuicao_custo
                 = anterior_mc.retorno_mc.distribuicao_custo

\* two seeded runs of two draws each that found the process generator in
\* different states, the draws giving different reductions
C12_Witness ==
    /\ DuasChamadasRetornaram
    /\ seed # <<>>
    /\ rng_entrada # anterior_mc.rng_entrada
    /\ Len(retorno_mc.distribuicao_reducao) = 2
    /\ retorno_mc.distribuicao_reducao[1] # retorno_mc.distribuicao_reducao[2]
    /\ retorno_mc.distribuicao_custo # <<>>

----------------------------------------------------------------------------
(* C13 *)

\* the table simular_parametros makes from the first deviates that the
\* generator gives after np.random.seed(s)
TabelaDaSemente(s) ==
    SimularParametros(df_dados, incerteza_elasticidade, incerteza_taxa,
                      [p \in 1..NumSorteios(df_dados) |-> sorteios[<<s, p - 1>>]])

\* C13 (as claimed): with a base seed supplied (any integer, 0 included),
\* draw i is generated from the generator seeded with base_seed + i, so its
\* perturbed table is a function of the table, the coefficients and
\* base_seed + i alone.
C13_SementePorSorteio ==
    seed # <<>> =>
        \A j \in 1..Len(historico) :
           /\ historico[j].rng = [semente |-> seed[1] + (j - 1), pos |-> 0]
           /\ historico[j].df_sim = TabelaDaSemente(seed[1] + (j - 1))

----------------------------------------------------------------------------
(* C14 *)

RECURSIVE ReducoesDosOtimos(_)
\* the reducao_crimes of the Optimal draws of a history, in order
ReducoesDosOtimos(h) ==
    IF h = <<>> THEN <<>>
    ELSE IF EOtimo(Head(h).resultado)
         THEN <<Head(h).resultado.reducao_crimes>> \o ReducoesDosOtimos(Tail(h))
         ELSE ReducoesDosOtimos(Tail(h))

NumOtimos == Cardinality({j \in 1..Len(historico) : EOtimo(historico[j].resultado)})

\* C14: the loop goes on to the next draw whatever the status of a draw (only
\* an exception leaves it early); a draw that is not Optimal adds nothing to
\* reducoes or custos; n_sucesso is the number of Optimal draws and the length
\* of the reduction distribution, and is <= n_simulacoes; a call that returns
\* attempted all n_simulacoes draws.
C14_TodosOsSorteiosContados ==
    /\ pc_mc \in {"laco", "retornou"} =>
          /\ Len(historico) = i
          /\ i <= n_simulacoes
          /\ n_sucesso = NumOtimos
          /\ reducoes = ReducoesDosOtimos(historico)
          /\ Len(custos) = n_sucesso
    /\ pc_mc = "erro" =>
          \/ Len(historico) = n_simulacoes /\ NumOtimos = 0
          \/ historico[Len(historico)].resultado = Levantou
    /\ pc_mc = "retornou" =>
          /\ Len(historico) = n_simulacoes
          /\ retorno_mc.n_sucesso = NumOtimos
          /\ retorno_mc.n_sucesso = Len(retorno_mc.distribuicao_reducao)
          /\ retorno_mc.distribuicao_reducao = ReducoesDosOtimos(historico)
          /\ retorno_mc.n_sucesso <= n_simulacoes

\* a run of two draws, the first not Optimal, that went on to the second and
\* returned
C14_Witness ==
    /\ pc_mc = "retornou"
    /\ n_simulacoes = 2
    /\ historico[1].resultado.status = "Infeasible"
    /\ retorno_mc.n_sucesso < n_simulacoes

----------------------------------------------------------------------------
(* C15 *)

RECURSIVE CustosDosOtimos(_)
\* budget used over reduction of the Optimal draws of a history whose
\* reduction is positive, in order
CustosDosOtimos(h) ==
    IF h = <<>> THEN <<>>
    ELSE IF EOtimo(Head(h).resultado) /\ Head(h).resultado.reducao_crimes > 0
         THEN <<<<Head(h).resultado.orcamento_usado,
                  Head(h).resultado.reducao_crimes>>>>
                 \o CustosDosOtimos(Tail(h))
         ELSE CustosDosOtimos(Tail(h))

\* C15: an Optimal draw whose total reduction is zero adds no entry to the
\* cost distribution and still adds its reduction to the reduction
\* distribution; every entry of the cost distribution is budget_used /
\* reduction of an Optimal draw with reduction > 0 (a finite number, not NaN).
C15_CustoSoComReducaoPositiva ==
    pc_mc = "retornou" =>
        /\ retorno_mc.distribuicao_custo = CustosDosOtimos(historico)
        /\ \A k \in 1..Len(retorno_mc.distribuicao_custo) :
              retorno_mc.distribuicao_custo[k][2] > 0
        /\ retorno_mc.distribuicao_reducao = ReducoesDosOtimos(historico)

\* two Optimal draws, one with reduction zero and one with a positive one
C15_Witness ==
    /\ pc_mc = "retornou"
    /\ orcamento_mc > 0
    /\ Len(retorno_mc.distribuicao_reducao) = 2
    /\ \E k \in 1..2 : retorno_mc.distribuicao_reducao[k] = 0
    /\ Len(retorno_mc.distribuicao_custo) = 1

----------------------------------------------------------------------------
(* C16 *)

\* C16: every recorded elasticity of every table that simular_parametros
\* produced lies in [0.01, 0.30], for every recorded base elasticity and every
\* coefficient of variation.
C16_ElasticidadeNoIntervalo ==
    \A j \in 1..Len(historico) :
       \A e \in DOMAIN historico[j].df_sim :
          "elasticidade" \notin historico[j].df_sim[e].nulos
             => /\ historico[j].df_sim[e].elasticidade >= 1
                /\ historico[j].df_sim[e].elasticidade <= 30

\* a sample below 0.01 and a sample above 0.30 were clipped
C16_Witness ==
    /\ Len(historico) = 2
    /\ \E e \in DOMAIN df_dados :
          /\ "elasticidade" \notin df_dados[e].nulos
          /\ df_dados[e].elasticidade = 30
          /\ incerteza_elasticidade = 200
          /\ historico[1].df_sim[e].elasticidade = 1
          /\ historico[2].df_sim[e].elasticidade = 30

----------------------------------------------------------------------------
(* C17 *)

\* the normal samples, in hundredths of a death, that row e of the table can
\* get
AmostrasDeMortes(e) ==
    {100 * df_dados[e].mortes_violentas
        + df_dados[e].mortes_violentas * incerteza_taxa * z : z \in ZVals}

MortesRegistradas ==
    {e \in DOMAIN df_dados : "mortes_violentas" \notin df_dados[e].nulos}

\* C17 (as claimed): every death count of a produced table is the normal
\* sample floored at 1 and rounded to the nearest integer: an integer >= 1,
\* a sample of k + 0.7 with k >= 1 becoming k + 1.
C17_Original ==
    \A j \in 1..Len(historico) :
       \A e \in MortesRegistradas :
          LET m == historico[j].df_sim[e].mortes_violentas
          IN  /\ m >= 1
              /\ \E a \in AmostrasDeMortes(e) :
                    IF a <= 100 THEN m = 1
                    ELSE 2 * Abs(100 * m - a) <= 100

\* C17 (amended): every death count of a produced table is the normal sample
\* truncated towards zero and then floored at 1: an integer >= 1, a sample of
\* k + 0.7 with k >= 1 becoming k.
C17_MortesTruncadas ==
    \A j \in 1..Len(historico) :
       \A e \in MortesRegistradas :
          LET m == historico[j].df_sim[e].mortes_violentas
          IN  /\ m >= 1
              /\ \E a \in AmostrasDeMortes(e) :
                    IF a < 200 THEN m = 1
                    ELSE 100 * m <= a /\ a < 100 * (m + 1)

\* a sample of 32.70 became 32, and a sample of 0 became 1
C17_Witness ==
    /\ Len(historico) = 2
    /\ incerteza_taxa = 9
    /\ \E e \in MortesRegistradas :
          /\ df_dados[e].mortes_violentas = 30
          /\ historico[1].df_sim[e].mortes_violentas = 32
          /\ historico[2].df_sim[e].mortes_violentas = 27

----------------------------------------------------------------------------
(* Multi-period (src/multi_periodo.py): inputs *)

\* depreciacao_anual is counted in tenths: 0, the default 0.1, 0.5 and 1
EscalaDep == 10
DepreciacaoVals == {0, 1, 5, 10}
FatorAcumulacaoVals == {7, 10}
OrcamentoPeriodoVals == {0, 6, 90}
PctMinMPVals == {0, 50}
PctMaxMPVals == {5, 50}
MaxPeriodos == 2

\* the tables of the Monte Carlo runs and one of two states whose reductions
\* at an upper bound of 5 % are 0.45 each
LinhaElasticidadeAlta ==
    [mortes_violentas |-> 30, orcamento_2022_milhoes |-> 120,
     elasticidade |-> 30, nulos |-> {}]

TabelasMP == TabelasMC \cup {[e \in Siglas |-> LinhaElasticidadeAlta]}

RECURSIVE Pot(_, _)
\* b ** n, with b ** 0 = 1 also for b = 0
Pot(b, n) == IF n = 0 THEN 1 ELSE b * Pot(b, n - 1)

----------------------------------------------------------------------------
(* comparar_estrategias: the four budget lists *)

\* the keys of the dictionary estrategias, in insertion order
NomesEstrategias == <<"Uniforme", "Frontloaded", "Backloaded", "Crescente_Linear">>

\* mutant of PesoBruto: every list is built with the Crescente_Linear factor
PesoBrutoSempreCrescente(nome, n, t) == n + 2 * t

\* lines 271-279: the factor that multiplies orcamento_medio at index t of
\* range(n_periodos), as a numerator over 2 * n_periodos:
\* 1, 1 + 0.5 * (n - t) / n, 1 + 0.5 * t / n, 0.5 + t / n
PesoBruto(nome, n, t) ==
    CASE nome = "Uniforme" -> 2 * n
      [] nome = "Frontloaded" -> 2 * n + (n - t)
      [] nome = "Backloaded" -> 2 * n + t
      [] nome = "Crescente_Linear" -> n + 2 * t

\* lines 269-279: the list before normalisation, orcamento_medio =
\* orcamento_total / n_periodos times the factor; numerators over 2 * n * n
EstrategiaBruta(nome, total, n) ==
    [k \in 1..n |-> total * PesoBruto(nome, n, k - 1)]

\* mutant of EstrategiaNormalizada: the normalised list comes out reversed
EstrategiaInvertida(nome, total, n) ==
    LET bruta == EstrategiaBruta(nome, total, n)
        soma == SomaSeq(bruta)
    IN  [k \in 1..n |-> <<bruta[n + 1 - k] * total, soma>>]

\* lines 282-284: soma = sum(lista); every x becomes x * orcamento_total /
\* soma, here the fraction <<numerator, denominator>> (2 * n * n cancels);
\* the denominator is 0 when soma is 0
EstrategiaNormalizada(nome, total, n) ==
    LET bruta == EstrategiaBruta(nome, total, n)
        soma == SomaSeq(bruta)
    IN  [k \in 1..n |-> <<bruta[k] * total, soma>>]

\* the list is a list of whole numbers of mils
EmMilsInteiros(lista) ==
    \A k \in 1..Len(lista) :
       /\ lista[k][2] # 0
       /\ lista[k][1] % (IF lista[k][2] > 0 THEN lista[k][2] ELSE 0 - lista[k][2])
             = 0

\* the whole numbers of mils of such a list
EmMils(lista) ==
    [k \in 1..Len(lista) |->
        IF lista[k][2] > 0 THEN lista[k][1] \div lista[k][2]
        ELSE (0 - lista[k][1]) \div (0 - lista[k][2])]

\* total budgets whose Uniforme and Frontloaded lists of two periods are
\* whole numbers of mils: 0.011 + 0.011 and 0.012 + 0.010, 0.187 + 0.187 and
\* 0.204 + 0.170
OrcamentoTotalVals == {22, 374}

\* the Uniforme and Frontloaded lists a caller can pass on
ListasDeEstrategia ==
    {EmMils(EstrategiaNormalizada(nome, total, n)) :
        <<nome, total, n>> \in
           {c \in {"Uniforme", "Frontloaded"} \X OrcamentoTotalVals
                     \X (1..MaxPeriodos) :
               EmMilsInteiros(EstrategiaNormalizada(c[1], c[2], c[3]))}}

----------------------------------------------------------------------------
(* otimizar_multi_periodo: the linear program *)

\* A stock of period t is a numerator over EscalaDep^(t-1).

RECURSIVE EstoqueRecorrenciaSemDepreciacao(_, _, _, _)
\* mutant of EstoqueRecorrencia: the earlier stock is carried over whole
EstoqueRecorrenciaSemDepreciacao(v, e, t, dep) ==
    IF t = 1 THEN v[1][e]
    ELSE v[t][e] * Pot(EscalaDep, t - 1)
            + EscalaDep * EstoqueRecorrenciaSemDepreciacao(v, e, t - 1, dep)

RECURSIVE EstoqueRecorrencia(_, _, _, _)
\* lines 112-118: estoque[e, 1] = x[e, 1],
\* estoque[e, t] = x[e, t] + (1 - depreciacao_anual) * estoque[e, t-1]
EstoqueRecorrencia(v, e, t, dep) ==
    IF t = 1 THEN v[1][e]
    ELSE v[t][e] * Pot(EscalaDep, t - 1)
            + (EscalaDep - dep) * EstoqueRecorrencia(v, e, t - 1, dep)

\* lines 131-137: the objective, desconto[t] being 1.0 for every t, as a
\* numerator over DenObjetivo(d) * EscalaDep^(T-1)
ObjetivoMPNum(d, v, dep) ==
    0 - SomaSeq([t \in 1..Len(v) |->
                   Soma([e \in DOMAIN d |->
                           CoefNum(d, e) * EstoqueRecorrencia(v, e, t, dep)
                              * Pot(EscalaDep, Len(v) - t)],
                        DOMAIN d)])

\* lines 101-108 and 144-148: every x[e, t] within [inv_min[e], inv_max[e]]
\* and one budget row per period.  The rows do not share variables, so the
\* basic feasible solutions are one basic feasible solution per period.
ViaveisMP(lo, hi, orcamentos) ==
    {v \in [1..Len(orcamentos) ->
              UNION {Viaveis(lo, hi, orcamentos[t]) : t \in 1..Len(orcamentos)}] :
        \A t \in 1..Len(orcamentos) : v[t] \in Viaveis(lo, hi, orcamentos[t])}

\* mutant of OtimasMP: the solver stops at any basic feasible solution
OtimasMPQualquerViavel(d, lo, hi, orcamentos, dep) ==
    ViaveisMP(lo, hi, orcamentos)

\* modelo.solve(solver): a basic feasible solution of least objective value
OtimasMP(d, lo, hi, orcamentos, dep) ==
    {v \in ViaveisMP(lo, hi, orcamentos) :
        \A w \in ViaveisMP(lo, hi, orcamentos) :
            ObjetivoMPNum(d, v, dep) <= ObjetivoMPNum(d, w, dep)}

----------------------------------------------------------------------------
(* otimizar_multi_periodo: extraction of the results *)

\* mutant of EstoqueFechado: the investment of period s is depreciated
\* t - s + 1 times
EstoqueFechadoUmAnoAMais(v, e, t, dep) ==
    SomaSeq([s \in 1..t |->
               v[s][e] * Pot(EscalaDep - dep, t - s + 1) * Pot(EscalaDep, s - 1)])
        \div EscalaDep

\* lines 185-191: estoque_acum = sum over s = 1..t of
\* value(x[e, s]) * (1 - depreciacao_anual) ** (t - s)
EstoqueFechado(v, e, t, dep) ==
    SomaSeq([s \in 1..t |->
               v[s][e] * Pot(EscalaDep - dep, t - s) * Pot(EscalaDep, s - 1)])

\* round(v, 2) of the money num/den, in mils
Round2Fracao(num, den) == {10 * q : q \in RoundDec(num, 10 * den)}

\* lines 182-206: the dictionaries the loop may append for state e in period
\* t.  When the stock is the period's investment itself (the loop added only
\* zeros to it) the two are the same float and round to the same value.
LinhasMP(d, e, t, v, dep) ==
    LET investimento == v[t][e]
        estoque_num == EstoqueFechado(v, e, t, dep)
        estoque_den == Pot(EscalaDep, t - 1)
        crimes_base == d[e].mortes_violentas
        num == crimes_base * d[e].elasticidade * estoque_num
        den == 100 * d[e].orcamento_2022_milhoes * estoque_den
    IN  {l \in [periodo : {t},
                investimento : Round2(investimento),
                estoque_acumulado : Round2Fracao(estoque_num, estoque_den),
                crimes_base : {crimes_base},
                crimes_apos : {IF crimes_base * den - num > 0
                               THEN RoundInt(crimes_base * den - num, den)
                               ELSE 0},
                reducao : {RoundInt(num, den)}] :
            estoque_num = investimento * estoque_den
               => l.estoque_acumulado = l.investimento}

\* reducao_periodo of period t, a numerator over DenObjetivo(d) * EscalaDep^(t-1)
ReducaoPeriodoNum(d, t, v, dep) ==
    Soma([e \in DOMAIN d |-> CoefNum(d, e) * EstoqueFechado(v, e, t, dep)],
         DOMAIN d)

\* the ResultadoMultiPeriodo returned when status != 'Optimal'
ResultadoMPNaoOtimo(st, n_periodos) ==
    [status |-> st, n_periodos |-> n_periodos, orcamento_total_usado |-> 0,
     reducao_total_crimes |-> 0, alocacao_por_periodo |-> <<>>,
     reducao_por_periodo |-> <<>>, trajetoria_crimes |-> <<>>]

----------------------------------------------------------------------------
(* otimizar_multi_periodo: the call *)

\* the other variables of this model do not take part in a multi-period call
AlocacaoEMonteCarloParados ==
    /\ AlocacaoParada
    /\ MonteCarloParado
    /\ chamadas = 1

InitMP ==
    /\ AlocacaoEMonteCarloParados
    /\ OutrosParados
    /\ df_dados \in TabelasMP
    /\ orcamentos_por_periodo \in
          UNION {[1..n -> OrcamentoPeriodoVals] : n \in 1..MaxPeriodos}
             \cup ListasDeEstrategia
    /\ fator_acumulacao \in FatorAcumulacaoVals
    /\ depreciacao_anual \in DepreciacaoVals
    /\ investimento_min_pct \in PctMinMPVals
    /\ investimento_max_pct \in PctMaxMPVals
    /\ pc_mp = "inicio"
    /\ status_mp = ""
    /\ x_mp = <<>>
    /\ t_mp = 0
    /\ alocacao_por_periodo = <<>>
    /\ reducao_por_periodo = <<>>
    /\ trajetoria_lista = <<>>
    /\ orcamento_total_mp = 0
    /\ reducao_total_mp = 0
    /\ resultado_mp = SemResultadoMP
    /\ anterior_mp = SemAnteriorMP

\* the call solves the linear program that the previous call solved
\* (fator_acumulacao is no part of it), so the solver and the roundings give
\* what they gave
MesmoProblemaMP ==
    /\ anterior_mp.pc_mp = "retornou"
    /\ anterior_mp.resultado_mp.status = "Optimal"
    /\ anterior_mp.orcamentos_por_periodo = orcamentos_por_periodo

\* lines 78-154: filter the table, build the LP, solve it, read the status
ResolverMP ==
    /\ pc_mp = "inicio"
    /\ LET d == DropNa(df_dados)
           lo == InvMin(d, investimento_min_pct)
           hi == InvMax(d, investimento_max_pct)
       IN  \/ /\ ViaveisMP(lo, hi, orcamentos_por_periodo) = {}
              /\ status_mp' = "Infeasible"
              /\ x_mp' = <<>>
           \/ \E v \in OtimasMP(d, lo, hi, orcamentos_por_periodo,
                                depreciacao_anual) :
                 /\ MesmoProblemaMP => v = anterior_mp.x_mp
                 /\ status_mp' = "Optimal"
                 /\ x_mp' = v
    /\ pc_mp' = "resolvido"
    /\ UNCHANGED <<vars_outros, vars_alocacao, vars_mc, orcamentos_por_periodo,
                   fator_acumulacao, depreciacao_anual, investimento_min_pct,
                   investimento_max_pct, t_mp, alocacao_por_periodo,
                   reducao_por_periodo, trajetoria_lista, orcamento_total_mp,
                   reducao_total_mp, resultado_mp, anterior_mp>>

\* lines 156-165: the early return of a solve that is not Optimal
RetornarNaoOtimoMP ==
    /\ pc_mp = "resolvido"
    /\ status_mp # "Optimal"
    /\ resultado_mp' = ResultadoMPNaoOtimo(status_mp, Len(orcamentos_por_periodo))
    /\ pc_mp' = "retornou"
    /\ UNCHANGED <<vars_outros, vars_alocacao, vars_mc, orcamentos_por_periodo,
                   fator_acumulacao, depreciacao_anual, investimento_min_pct,
                   investimento_max_pct, status_mp, x_mp, t_mp,
                   alocacao_por_periodo, reducao_por_periodo, trajetoria_lista,
                   orcamento_total_mp, reducao_total_mp, anterior_mp>>

\* lines 177-232: one pass of "for t in periodos": the rows of the period,
\* the merge with the table's columns (KeyError when there is no row, as in
\* Agregar), the period's totals.  reducao_total_mp is kept as a numerator
\* over DenObjetivo(d) * EscalaDep^(T-1).
ExtrairPeriodo ==
    /\ pc_mp = "resolvido"
    /\ status_mp = "Optimal"
    /\ t_mp < Len(orcamentos_por_periodo)
    /\ LET d == DropNa(df_dados)
           t == t_mp + 1
           n_periodos == Len(orcamentos_por_periodo)
           reducao_periodo == ReducaoPeriodoNum(d, t, x_mp, depreciacao_anual)
       IN  \/ /\ DOMAIN d = {}
              /\ pc_mp' = "erro"
              /\ UNCHANGED <<t_mp, alocacao_por_periodo, reducao_por_periodo,
                             trajetoria_lista, orcamento_total_mp,
                             reducao_total_mp>>
           \/ /\ DOMAIN d # {}
              /\ \E lista \in [DOMAIN d ->
                                 UNION {LinhasMP(d, e, t, x_mp, depreciacao_anual)
                                          : e \in DOMAIN d}] :
                    /\ \A e \in DOMAIN d :
                          lista[e] \in LinhasMP(d, e, t, x_mp, depreciacao_anual)
                    /\ MesmoProblemaMP =>
                          lista = anterior_mp.resultado_mp.alocacao_por_periodo[t]
                    /\ alocacao_por_periodo' = Append(alocacao_por_periodo, lista)
                    /\ trajetoria_lista' =
                          Append(trajetoria_lista,
                                 [periodo |-> t,
                                  orcamento_periodo |-> orcamentos_por_periodo[t],
                                  investimento_total |->
                                     Soma([e \in DOMAIN d |-> lista[e].investimento],
                                          DOMAIN d),
                                  crimes_base |->
                                     Soma([e \in DOMAIN d |-> lista[e].crimes_base],
                                          DOMAIN d),
                                  crimes_apos |->
                                     Soma([e \in DOMAIN d |-> lista[e].crimes_apos],
                                          DOMAIN d),
                                  reducao_acumulada |->
                                     <<reducao_periodo,
                                       DenObjetivo(d) * Pot(EscalaDep, t - 1)>>])
              /\ reducao_por_periodo' =
                    Append(reducao_por_periodo,
                           RoundInt(reducao_periodo,
                                    DenObjetivo(d) * Pot(EscalaDep, t - 1)))
              /\ reducao_total_mp' =
                    reducao_total_mp
                       + reducao_periodo * Pot(EscalaDep, n_periodos - t)
              /\ orcamento_total_mp' =
                    orcamento_total_mp + Soma(x_mp[t], DOMAIN d)
              /\ t_mp' = t
              /\ pc_mp' = "resolvido"
    /\ UNCHANGED <<vars_outros, vars_alocacao, vars_mc, orcamentos_por_periodo,
                   fator_acumulacao, depreciacao_anual, investimento_min_pct,
                   investimento_max_pct, status_mp, x_mp, resultado_mp,
                   anterior_mp>>

\* lines 234-244: the trajectory table and the returned object
RetornarMP ==
    /\ pc_mp = "resolvido"
    /\ status_mp = "Optimal"
    /\ t_mp = Len(orcamentos_por_periodo)
    /\ \E usado \in Round2(orcamento_total_mp) :
          /\ MesmoProblemaMP =>
                usado = anterior_mp.resultado_mp.orcamento_total_usado
          /\ resultado_mp' =
               [status |-> status_mp,
                n_periodos |-> Len(orcamentos_por_periodo),
                orcamento_total_usado |-> usado,
                reducao_total_crimes |->
                   RoundInt(reducao_total_mp,
                            DenObjetivo(DropNa(df_dados))
                               * Pot(EscalaDep, Len(orcamentos_por_periodo) - 1)),
                alocacao_por_periodo |-> alocacao_por_periodo,
                reducao_por_periodo |-> reducao_por_periodo,
                trajetoria_crimes |-> trajetoria_lista]
    /\ pc_mp' = "retornou"
    /\ UNCHANGED <<vars_outros, vars_alocacao, vars_mc, orcamentos_por_periodo,
                   fator_acumulacao, depreciacao_anual, investimento_min_pct,
                   investimento_max_pct, status_mp, x_mp, t_mp,
                   alocacao_por_periodo, reducao_por_periodo, trajetoria_lista,
                   orcamento_total_mp, reducao_total_mp, anterior_mp>>

\* the caller calls again on the same table with the same percentages and
\* depreciation: with another fator_acumulacao and the same budgets, or with
\* the Frontloaded list of the total it passed as a Uniforme list
NovaChamadaMP ==
    /\ pc_mp \in {"retornou", "erro"}
    /\ chamadas < MaxChamadas
    /\ anterior_mp' =
          [pc_mp |-> pc_mp, orcamentos_por_periodo |-> orcamentos_por_periodo,
           fator_acumulacao |-> fator_acumulacao, x_mp |-> x_mp,
           reducao_total_mp |-> reducao_total_mp, resultado_mp |-> resultado_mp]
    /\ \/ /\ fator_acumulacao' \in FatorAcumulacaoVals \ {fator_acumulacao}
          /\ UNCHANGED orcamentos_por_periodo
       \/ /\ \E total \in OrcamentoTotalVals :
                LET n == Len(orcamentos_por_periodo)
                    uniforme == EstrategiaNormalizada("Uniforme", total, n)
                    frontloaded == EstrategiaNormalizada("Frontloaded", total, n)
                IN  /\ EmMilsInteiros(uniforme)
                    /\ EmMilsInteiros(frontloaded)
                    /\ orcamentos_por_periodo = EmMils(uniforme)
                    /\ orcamentos_por_periodo' = EmMils(frontloaded)
          /\ UNCHANGED fator_acumulacao
    /\ chamadas' = chamadas + 1
    /\ pc_mp' = "inicio"
    /\ status_mp' = ""
    /\ x_mp' = <<>>
    /\ t_mp' = 0
    /\ alocacao_por_periodo' = <<>>
    /\ reducao_por_periodo' = <<>>
    /\ trajetoria_lista' = <<>>
    /\ orcamento_total_mp' = 0
    /\ reducao_total_mp' = 0
    /\ resultado_mp' = SemResultadoMP
    /\ UNCHANGED <<vars_outros, vars_mc, df_dados, orcamento_disponivel,
                   investimento_minimo_pct, investimento_maximo_pct, pc, status,
                   x, alocacao_lista, resultado, anterior, depreciacao_anual,
                   investimento_min_pct, investimento_max_pct>>

NextMP ==
    \/ ResolverMP
    \/ RetornarNaoOtimoMP
    \/ ExtrairPeriodo
    \/ RetornarMP
    \/ NovaChamadaMP

SpecMP == InitMP /\ [][NextMP]_vars

----------------------------------------------------------------------------
(* What the multi-period claims speak about *)

df_mp == DropNa(df_dados)
periodos == 1..Len(orcamentos_por_periodo)
n_periodos == Len(orcamentos_por_periodo)

RetornouOtimoMP == pc_mp = "retornou" /\ resultado_mp.status = "Optimal"

----------------------------------------------------------------------------
(* C18 *)

----------------------------------------------------------------------------
(* C19 *)

\* the reported investments of state e over all periods
InvestimentosReportados(e) ==
    SomaSeq([t \in periodos |-> resultado_mp.alocacao_por_periodo[t][e].investimento])

\* C19 (as claimed): in an Optimal result, with depreciation 0 the reported
\* stock of every state at the last period T equals the sum of the state's
\* investments over periods 1..T, and with depreciation 1 it equals the
\* state's investment in period T.
C19_Original ==
    RetornouOtimoMP =>
        \A e \in DOMAIN df_mp :
           LET ultima == resultado_mp.alocacao_por_periodo[n_periodos][e]
           IN  /\ depreciacao_anual = 0
                     => ultima.estoque_acumulado = InvestimentosReportados(e)
               /\ depreciacao_anual = EscalaDep
                     => ultima.estoque_acumulado = ultima.investimento

\* C19 (amended): in an Optimal result, with depreciation 0 the stock of
\* every state at the last period T is the sum of the state's solved
\* investments over 1..T and is reported rounded to 2 decimals, so it is
\* within 0.005 * (T + 1) of the sum of the reported investments; with
\* depreciation 1 the reported stock equals the reported investment of
\* period T.
C19_EstoqueFinal ==
    RetornouOtimoMP =>
        \A e \in DOMAIN df_mp :
           LET ultima == resultado_mp.alocacao_por_periodo[n_periodos][e]
           IN  /\ depreciacao_anual = 0
                     => /\ ultima.estoque_acumulado
                              \in Round2(SomaSeq([t \in periodos |-> x_mp[t][e]]))
                        /\ Abs(ultima.estoque_acumulado - InvestimentosReportados(e))
                              <= 5 * (n_periodos + 1)
               /\ depreciacao_anual = EscalaDep
                     => ultima.estoque_acumulado = ultima.investimento

\* no depreciation, two periods, a state at an upper bound with a third
\* decimal in both
C19_Witness ==
    /\ RetornouOtimoMP
    /\ n_periodos = 2
    /\ depreciacao_anual = 0
    /\ \E e \in DOMAIN df_mp :
          /\ x_mp[1][e] > 0
          /\ x_mp[2][e] > 0
          /\ resultado_mp.alocacao_por_periodo[2][e].estoque_acumulado
                # InvestimentosReportados(e)

----------------------------------------------------------------------------
(* C20 *)

\* C20 (as claimed): in every Optimal result, for each period t the sum over
\* the states of the period's investments is at most orcamentos_por_periodo
\* [t-1]: no period spends what another period left unused.
C20_OrcamentoPorPeriodo ==
    RetornouOtimoMP =>
        \A t \in periodos :
           /\ Soma([e \in DOMAIN df_mp |->
                      resultado_mp.alocacao_por_periodo[t][e].investimento],
                   DOMAIN df_mp) <= orcamentos_por_periodo[t]
           /\ resultado_mp.trajetoria_crimes[t].investimento_total
                 <= orcamentos_por_periodo[t]

----------------------------------------------------------------------------
(* C29: otimizar_alocacao on tables whose reductions have a fractional part *)

\* rows of one state whose solved reduction can end in .5: 5 * 0.20 * 0.5,
\* 15 * 0.20 * 0.5, next to rows whose reduction is a whole number
LinhasFracao ==
    [mortes_violentas : {5, 10, 15, 30}, orcamento_2022_milhoes : {120},
     elasticidade : {10, 20}, nulos : {{}}]

TabelasFracao == {<<>>} \cup [{"SP"} -> LinhasFracao]

InitFracoes ==
    /\ MonteCarloParado
    /\ MultiPeriodoParado
    /\ df_dados \in TabelasFracao
    /\ orcamento_disponivel \in OrcamentoDisponivelVals
    /\ investimento_minimo_pct \in PctMinVals
    /\ investimento_maximo_pct \in PctMaxVals
    /\ OutrosParados
    /\ pc = "inicio"
    /\ status = ""
    /\ x = <<>>
    /\ alocacao_lista = <<>>
    /\ resultado = SemResultado
    /\ anterior = [pc |-> "", orcamento_disponivel |-> 0, resultado |-> SemResultado]
    /\ chamadas = 1

SpecFracoes == InitFracoes /\ [][Next]_vars

\* C29 (as claimed): in every row of an Optimal allocation table the three
\* reported death figures satisfy mortes_antes - reducao_mortes =
\* mortes_depois, whatever the death count and the reduction.
C29_MortesConsistentes ==
    RetornouOtimo =>
        \A e \in DOMAIN resultado.alocacao :
           resultado.alocacao[e].mortes_antes - resultado.alocacao[e].reducao_mortes
              = resultado.alocacao[e].mortes_depois

----------------------------------------------------------------------------
(* C23, C28, C30: what two multi-period calls give *)

\* the previous call and this one both returned an Optimal result
DuasChamadasOtimasMP ==
    /\ anterior_mp.pc_mp = "retornou"
    /\ anterior_mp.resultado_mp.status = "Optimal"
    /\ RetornouOtimoMP

\* this call was given the Frontloaded list of the total whose Uniforme list
\* the previous call was given
FrontloadedAposUniforme ==
    \E total \in OrcamentoTotalVals :
       LET uniforme == EstrategiaNormalizada("Uniforme", total, n_periodos)
           frontloaded == EstrategiaNormalizada("Frontloaded", total, n_periodos)
       IN  /\ EmMilsInteiros(uniforme)
           /\ EmMilsInteiros(frontloaded)
           /\ anterior_mp.orcamentos_por_periodo = EmMils(uniforme)
           /\ orcamentos_por_periodo = EmMils(frontloaded)
           /\ anterior_mp.fator_acumulacao = fator_acumulacao

CabeNoMelhorEstado ==
    \E b \in DOMAIN df_mp :
       /\ \A f \in DOMAIN df_mp : ~RazaoMaior(f, b)
       /\ \A t \in periodos :
             LET teto == InvMax(df_mp, investimento_max_pct)[b]
             IN  /\ orcamentos_por_periodo[t] <= teto
                 /\ anterior_mp.orcamentos_por_periodo[t] <= teto

----------------------------------------------------------------------------
(* C28 *)

\* C28 (as claimed): for a horizon of at least 2 periods with positive
\* investment in period 1, two calls that differ only in fator_acumulacao
\* report different accumulated stocks and reductions for period 2.
C28_FatorAcumulacaoMudaEstoque ==
    (/\ DuasChamadasOtimasMP
     /\ anterior_mp.orcamentos_por_periodo = orcamentos_por_periodo
     /\ anterior_mp.fator_acumulacao # fator_acumulacao
     /\ n_periodos >= 2
     /\ \E e \in DOMAIN df_mp : x_mp[1][e] > 0) =>
        /\ \E e \in DOMAIN df_mp :
              resultado_mp.alocacao_por_periodo[2][e].estoque_acumulado
                 # anterior_mp.resultado_mp.alocacao_por_periodo[2][e].estoque_acumulado
        /\ resultado_mp.reducao_por_periodo[2]
              # anterior_mp.resultado_mp.reducao_por_periodo[2]

----------------------------------------------------------------------------
(* C30 *)

\* every period's solved investments are an optimal solution of the LP of
\* otimizar_alocacao for that period's budget and the same percentages
PeriodosDesacoplados ==
    status_mp = "Optimal" =>
        \A t \in periodos :
           x_mp[t] \in Otimas(df_mp, InvMin(df_mp, investimento_min_pct),
                              InvMax(df_mp, investimento_max_pct),
                              orcamentos_por_periodo[t])

\* C30: for depreciation in [0, 1] the periods decouple: the investments of
\* each period of an Optimal multi-period result are an optimal solution of
\* the single-period LP for that period's budget and the same percentages,
\* and a one-period call achieves the reduction that every optimal solution
\* of otimizar_alocacao achieves, which then returns Optimal too.
C30_PeriodosDesacoplados ==
    /\ PeriodosDesacoplados
    /\ (RetornouOtimoMP /\ n_periodos = 1) =>
          /\ \A v \in Otimas(df_mp, InvMin(df_mp, investimento_min_pct),
                              InvMax(df_mp, investimento_max_pct),
                              orcamentos_por_periodo[1]) :
                reducao_total_mp = 0 - ObjetivoNum(df_mp, v)
          /\ \A r \in ResultadosAlocacao(df_dados, orcamentos_por_periodo[1],
                                         investimento_min_pct,
                                         investimento_max_pct) : EOtimo(r)

\* two periods of different budgets, depreciation 0.5, a state that received
\* different investments in the two
C30_Witness ==
    /\ RetornouOtimoMP
    /\ n_periodos = 2
    /\ depreciacao_anual = 5
    /\ orcamentos_por_periodo[1] # orcamentos_por_periodo[2]
    /\ \E e \in DOMAIN df_mp :
          /\ x_mp[1][e] > 0
          /\ x_mp[2][e] > 0
          /\ x_mp[1][e] # x_mp[2][e]

----------------------------------------------------------------------------
(* comparar_estrategias (src/multi_periodo.py, lines 247-302) *)

\* the defaults of otimizar_multi_periodo, which the loop does not override
FatorAcumulacaoPadrao == 7
DepreciacaoPadrao == 1
InvestimentoMinPctPadrao == 0
InvestimentoMaxPctPadrao == 30

\* total budgets in mils; 0.198 gives whole numbers of mils in the four lists
\* of one and of two periods
OrcamentoTotalCEVals == {0 - 198, 0, 198}

\* the four lists of the call pass to the solver as whole numbers of mils
ListasEmMils(total, n) ==
    \A j \in 1..Len(NomesEstrategias) :
       EmMilsInteiros(EstrategiaNormalizada(NomesEstrategias[j], total, n))

InitCE ==
    /\ SensibilidadeParada
    /\ AlocacaoEMonteCarloParados
    /\ MultiPeriodoParado
    /\ df_dados \in TabelasMP
    /\ orcamento_total_ce \in OrcamentoTotalCEVals
    /\ n_periodos_ce \in 0..MaxPeriodos
    /\ (orcamento_total_ce # 0 /\ n_periodos_ce > 0)
          => ListasEmMils(orcamento_total_ce, n_periodos_ce)
    /\ pc_ce = "inicio"
    /\ estrategias_ce = <<>>
    /\ i_ce = 0
    /\ historico_ce = <<>>
    /\ resultados_ce = <<>>

\* lines 269-284: orcamento_medio, the dictionary and its normalisation.
\* n_periodos = 0 raises ZeroDivisionError at line 269, a list that sums to 0
\* raises it at line 284.
MontarEstrategias ==
    /\ pc_ce = "inicio"
    /\ IF n_periodos_ce = 0
          \/ \E j \in 1..Len(NomesEstrategias) :
                SomaSeq(EstrategiaBruta(NomesEstrategias[j], orcamento_total_ce,
                                        n_periodos_ce)) = 0
       THEN /\ pc_ce' = "erro"
            /\ UNCHANGED estrategias_ce
       ELSE /\ estrategias_ce' =
                  [j \in 1..Len(NomesEstrategias) |->
                     EstrategiaNormalizada(NomesEstrategias[j],
                                           orcamento_total_ce, n_periodos_ce)]
            /\ pc_ce' = "laco"
    /\ UNCHANGED <<vars_sens, vars_alocacao, vars_mc, vars_mp, orcamento_total_ce,
                   n_periodos_ce, i_ce, historico_ce, resultados_ce>>

\* lines 288-289: the next entry of the dictionary is handed to
\* otimizar_multi_periodo(df_dados, orcamentos), the other arguments at their
\* defaults
ChamarEstrategia ==
    /\ pc_ce = "laco"
    /\ i_ce < Len(NomesEstrategias)
    /\ anterior_mp' =
          [pc_mp |-> pc_mp, orcamentos_por_periodo |-> orcamentos_por_periodo,
           fator_acumulacao |-> fator_acumulacao, x_mp |-> x_mp,
           reducao_total_mp |-> reducao_total_mp, resultado_mp |-> resultado_mp]
    /\ orcamentos_por_periodo' = EmMils(estrategias_ce[i_ce + 1])
    /\ fator_acumulacao' = FatorAcumulacaoPadrao
    /\ depreciacao_anual' = DepreciacaoPadrao
    /\ investimento_min_pct' = InvestimentoMinPctPadrao
    /\ investimento_max_pct' = InvestimentoMaxPctPadrao
    /\ pc_mp' = "inicio"
    /\ status_mp' = ""
    /\ x_mp' = <<>>
    /\ t_mp' = 0
    /\ alocacao_por_periodo' = <<>>
    /\ reducao_por_periodo' = <<>>
    /\ trajetoria_lista' = <<>>
    /\ orcamento_total_mp' = 0
    /\ reducao_total_mp' = 0
    /\ resultado_mp' = SemResultadoMP
    /\ pc_ce' = "chamou"
    /\ UNCHANGED <<vars_sens, vars_alocacao, vars_mc, orcamento_total_ce,
                   n_periodos_ce,
                   estrategias_ce, i_ce, historico_ce, resultados_ce>>

\* mutant of LinhaComparacao: a solve that is not Optimal is listed too, with
\* the zero totals of its result
LinhaComparacaoSemTeste(lista, nome, res, orcamentos) ==
    Append(lista,
           [estrategia |-> nome,
            orcamento_total |-> orcamento_total_ce,
            n_periodos |-> n_periodos_ce,
            reducao_total |-> res.reducao_total_crimes,
            reducao_primeiro_periodo |->
               IF res.reducao_por_periodo = <<>> THEN 0
               ELSE res.reducao_por_periodo[1],
            reducao_ultimo_periodo |->
               IF res.reducao_por_periodo = <<>> THEN 0
               ELSE res.reducao_por_periodo[n_periodos_ce],
            distribuicao |->
               [k \in 1..Len(orcamentos) |-> RoundInt(orcamentos[k], 1000)]])

\* lines 291-300: resultados after the call for the entry nome returned res
LinhaComparacao(lista, nome, res, orcamentos) ==
    IF res.status = "Optimal"
    THEN Append(lista,
                [estrategia |-> nome,
                 orcamento_total |-> orcamento_total_ce,
                 n_periodos |-> n_periodos_ce,
                 reducao_total |-> res.reducao_total_crimes,
                 reducao_primeiro_periodo |-> res.reducao_por_periodo[1],
                 reducao_ultimo_periodo |->
                    res.reducao_por_periodo[n_periodos_ce],
                 distribuicao |->
                    [k \in 1..Len(orcamentos) |->
                       RoundInt(orcamentos[k], 1000)]])
    ELSE lista

\* lines 289-300: the call returned; its row is appended when it is Optimal
ColherEstrategia ==
    /\ pc_ce = "chamou"
    /\ pc_mp = "retornou"
    /\ resultados_ce' =
          LinhaComparacao(resultados_ce, NomesEstrategias[i_ce + 1],
                          resultado_mp, orcamentos_por_periodo)
    /\ historico_ce' =
          Append(historico_ce, [estrategia |-> NomesEstrategias[i_ce + 1],
                                resultado |-> resultado_mp])
    /\ i_ce' = i_ce + 1
    /\ pc_ce' = "laco"
    /\ UNCHANGED <<vars_sens, vars_alocacao, vars_mc, vars_mp, orcamento_total_ce,
                   n_periodos_ce, estrategias_ce>>

\* line 289: what otimizar_multi_periodo raised leaves comparar_estrategias
PropagarErroCE ==
    /\ pc_ce = "chamou"
    /\ pc_mp = "erro"
    /\ pc_ce' = "erro"
    /\ UNCHANGED <<vars_sens, vars_alocacao, vars_mc, vars_mp, orcamento_total_ce,
                   n_periodos_ce, estrategias_ce, i_ce, historico_ce,
                   resultados_ce>>

\* line 302: return pd.DataFrame(resultados)
RetornarCE ==
    /\ pc_ce = "laco"
    /\ i_ce = Len(NomesEstrategias)
    /\ pc_ce' = "retornou"
    /\ UNCHANGED <<vars_sens, vars_alocacao, vars_mc, vars_mp, orcamento_total_ce,
                   n_periodos_ce, estrategias_ce, i_ce, historico_ce,
                   resultados_ce>>

NextCE ==
    \/ MontarEstrategias
    \/ ChamarEstrategia
    \/ ResolverMP
    \/ RetornarNaoOtimoMP
    \/ ExtrairPeriodo
    \/ RetornarMP
    \/ ColherEstrategia
    \/ PropagarErroCE
    \/ RetornarCE

SpecCE == InitCE /\ [][NextCE]_vars

----------------------------------------------------------------------------
(* C21 *)

\* the entries of historico_ce whose solve was Optimal
ChamadasOtimasCE ==
    SelectSeq(historico_ce, LAMBDA h : h.resultado.status = "Optimal")

\* C21: a multi-period solve that is not Optimal returns its status with zero
\* totals and empty per-period tables, and comparar_estrategias leaves that
\* list out of its table: the rows are, in order, those of the Optimal solves
\* and carry their totals.
C21_SoLinhasDeSolucoesOtimas ==
    /\ \A k \in 1..Len(historico_ce) :
          LET res == historico_ce[k].resultado
          IN  res.status # "Optimal" =>
                 /\ res.status = "Infeasible"
                 /\ res.n_periodos = n_periodos_ce
                 /\ res.orcamento_total_usado = 0
                 /\ res.reducao_total_crimes = 0
                 /\ res.alocacao_por_periodo = <<>>
                 /\ res.reducao_por_periodo = <<>>
                 /\ res.trajetoria_crimes = <<>>
    /\ Len(resultados_ce) = Len(ChamadasOtimasCE)
    /\ \A k \in 1..Len(resultados_ce) :
          /\ resultados_ce[k].estrategia = ChamadasOtimasCE[k].estrategia
          /\ resultados_ce[k].reducao_total
                = ChamadasOtimasCE[k].resultado.reducao_total_crimes
          /\ resultados_ce[k].reducao_ultimo_periodo
                = ChamadasOtimasCE[k].resultado.reducao_por_periodo[n_periodos_ce]

\* a negative total: the four solves were Infeasible and the table is empty
C21_Witness ==
    /\ pc_ce = "retornou"
    /\ Len(historico_ce) = Len(NomesEstrategias)
    /\ \A k \in 1..Len(historico_ce) :
          historico_ce[k].resultado.status = "Infeasible"
    /\ resultados_ce = <<>>

----------------------------------------------------------------------------
(* C22: the four lists as a function of orcamento_total and n_periodos *)

MaxOrcamentoTotal == 12
MaxPeriodosListas == 5

\* the call is followed up to the normalised dictionary
InitListas ==
    /\ SensibilidadeParada
    /\ AlocacaoEMonteCarloParados
    /\ MultiPeriodoParado
    /\ df_dados = <<>>
    /\ orcamento_total_ce \in 0..MaxOrcamentoTotal
    /\ n_periodos_ce \in 0..MaxPeriodosListas
    /\ pc_ce = "inicio"
    /\ estrategias_ce = <<>>
    /\ i_ce = 0
    /\ historico_ce = <<>>
    /\ resultados_ce = <<>>

SpecListas == InitListas /\ [][MontarEstrategias]_vars

\* the list of entry j of the dictionary
ListaCE(j) == estrategias_ce[j]

\* index of a name in the dictionary
IndiceCE(nome) == CHOOSE j \in 1..Len(NomesEstrategias) : NomesEstrategias[j] = nome

\* x < y for two fractions of positive denominators
FracaoMenor(a, b) == a[1] * b[2] < b[1] * a[2]

Crescente(lista) ==
    \A k \in 1..(Len(lista) - 1) : FracaoMenor(lista[k], lista[k + 1])

Decrescente(lista) ==
    \A k \in 1..(Len(lista) - 1) : FracaoMenor(lista[k + 1], lista[k])

Constante(lista) ==
    \A k \in 1..(Len(lista) - 1) :
       lista[k][1] * lista[k + 1][2] = lista[k + 1][1] * lista[k][2]

\* C22: for a total budget > 0 and n >= 1 periods each of the four normalised
\* lists has n entries that sum to the total budget; Uniforme is constant,
\* Frontloaded decreasing, Backloaded and Crescente_Linear increasing.
C22_ListasSomamOTotal ==
    (pc_ce = "laco" /\ orcamento_total_ce > 0 /\ n_periodos_ce >= 1) =>
        /\ \A j \in 1..Len(NomesEstrategias) :
              /\ Len(ListaCE(j)) = n_periodos_ce
              /\ \A k \in 1..n_periodos_ce : ListaCE(j)[k][2] > 0
              /\ SomaSeq([k \in 1..n_periodos_ce |-> ListaCE(j)[k][1]])
                    = orcamento_total_ce * ListaCE(j)[1][2]
              /\ \A k \in 1..n_periodos_ce :
                    ListaCE(j)[k][2] = ListaCE(j)[1][2]
        /\ Constante(ListaCE(IndiceCE("Uniforme")))
        /\ Decrescente(ListaCE(IndiceCE("Frontloaded")))
        /\ Crescente(ListaCE(IndiceCE("Backloaded")))
        /\ Crescente(ListaCE(IndiceCE("Crescente_Linear")))

\* five periods of a total of 0.012: Frontloaded starts above and Backloaded
\* below the Uniforme value
C22_Witness ==
    /\ pc_ce = "laco"
    /\ orcamento_total_ce = MaxOrcamentoTotal
    /\ n_periodos_ce = MaxPeriodosListas
    /\ FracaoMenor(ListaCE(IndiceCE("Uniforme"))[1],
                   ListaCE(IndiceCE("Frontloaded"))[1])
    /\ FracaoMenor(ListaCE(IndiceCE("Backloaded"))[1],
                   ListaCE(IndiceCE("Uniforme"))[1])

----------------------------------------------------------------------------
(* Sensitivity (src/sensibilidade.py) and the elasticity scenarios of
   src/monte_carlo.py: inputs *)

\* the defaults of otimizar_alocacao, which no operation below overrides
InvestimentoMinimoPctPadrao == 0
InvestimentoMaximoPctPadrao == 50

\* delta: float = 100.0, in mils
DeltaPadrao == 100000
DeltaVals == {20, DeltaPadrao}

\* line 213: row['orcamento_2022_milhoes'] * 0.30, the factor in percent
LimiteMaxPct == 30

\* line 216: abs(invest[0] - limite_max) < 0.01, the tolerance in mils
ToleranciaAtivo == 10

\* the default lists variacoes_pct of lines 44 and 101, the list of line 256
VariacoesOrcamentoPadrao == <<0 - 20, 0 - 10, 0 - 5, 5, 10, 20, 50, 100>>
VariacoesElasticidadePadrao == <<0 - 50, 0 - 25, 0 - 10, 10, 25, 50>>
VariacoesTornado == <<0 - 20, 20>>

\* fator_otimista = 1.25 and fator_pessimista = 0.75 in percent, and the
\* limits of the two clips in hundredths
FatorOtimista == 125
FatorPessimista == 75
ClipOtimista == 25
ClipPessimista == 3

\* the elasticity domain [0.01, 0.30] in hundredths
ElasticidadeMin == 1
ElasticidadeMax == 30

Operacoes ==
    {"analisar_sensibilidade_orcamento", "analisar_sensibilidade_elasticidade",
     "calcular_shadow_prices", "gerar_grafico_tornado", "analisar_cenarios",
     "comparar_cenarios"}

\* the operations that start with a solve of the caller's table
OperacoesComBase ==
    {"analisar_sensibilidade_orcamento", "analisar_sensibilidade_elasticidade",
     "calcular_shadow_prices", "gerar_grafico_tornado"}

LinhasSens ==
    [mortes_violentas : {30}, orcamento_2022_milhoes : {120},
     elasticidade : {10, 20, 30}, nulos : {{}}]

\* no row, one state (complete or with a missing cell), two states
TabelasSens ==
    {<<>>}
       \cup [{"SP"} -> LinhasSens \cup LinhasIncompletas]
       \cup {[e \in Siglas |-> IF e = "SP" THEN l ELSE LinhaRJ] : l \in LinhasSens}

OrcamentoSensVals == {0 - 20, 0, 36, 100}
VariacoesElasticidadeVals == {VariacoesElasticidadePadrao, <<0 - 50, 50>>}
OrcamentosCenariosVals == {<<0 - 20, 100>>, <<0, 36>>}

\* valor * (1 + pct / 100), and whether it is a whole number of units
Variado(valor, pct) == (valor * (100 + pct)) \div 100
VariadoExato(valor, pct) == (valor * (100 + pct)) % 100 = 0

----------------------------------------------------------------------------
(* The tables handed to the solver *)

\* lines 133-135 and 257-258: df_var = df_dados.copy() with the elasticity of
\* one state replaced (a NaN times a factor stays NaN)
ComElasticidade(tabela, estado, nova) ==
    [tabela EXCEPT
       ![estado].elasticidade =
          IF "elasticidade" \in tabela[estado].nulos THEN @ ELSE nova]

\* monte_carlo.py lines 213-221: elasticities times fator_otimista, clipped
\* from above
TabelaOtimista(tabela) ==
    [e \in DOMAIN tabela |->
        [tabela[e] EXCEPT
           !.elasticidade =
              IF "elasticidade" \in tabela[e].nulos THEN @
              ELSE IF @ * FatorOtimista > 100 * ClipOtimista THEN ClipOtimista
              ELSE (@ * FatorOtimista) \div 100]]

\* monte_carlo.py lines 214-222: elasticities times fator_pessimista, clipped
\* from below
TabelaPessimista(tabela) ==
    [e \in DOMAIN tabela |->
        [tabela[e] EXCEPT
           !.elasticidade =
              IF "elasticidade" \in tabela[e].nulos THEN @
              ELSE IF @ * FatorPessimista < 100 * ClipPessimista
                   THEN ClipPessimista
              ELSE (@ * FatorPessimista) \div 100]]

\* the two scenario tables are whole numbers of hundredths
CenariosExatos(tabela) ==
    \A e \in DOMAIN tabela :
       "elasticidade" \in tabela[e].nulos
          \/ /\ \/ tabela[e].elasticidade * FatorOtimista > 100 * ClipOtimista
                \/ (tabela[e].elasticidade * FatorOtimista) % 100 = 0
             /\ \/ tabela[e].elasticidade * FatorPessimista < 100 * ClipPessimista
                \/ (tabela[e].elasticidade * FatorPessimista) % 100 = 0

\* mutant of TabelaDoChamador: df_var is the caller's table itself
TabelaDoChamadorSemCopia(original, df_var) == df_var

\* what the caller's table is after a table derived from it was built and
\* solved: df_dados.copy() and dropna(...).copy() are objects of their own, so
\* writing to them leaves the original as it was
TabelaDoChamador(original, df_var) == original

\* the solves of the loop of an operation, in order: the table and the
\* budget handed to otimizar_alocacao and what the loop calls the entry
ItensSens ==
    CASE operacao = "analisar_sensibilidade_orcamento" ->
            [k \in 1..Len(variacoes_pct) |->
               [tabela |-> df_dados,
                orcamento |-> Variado(orcamento_sens, variacoes_pct[k]),
                rotulo |-> variacoes_pct[k]]]
      [] operacao = "analisar_sensibilidade_elasticidade" ->
            [k \in 1..Len(variacoes_pct) |->
               [tabela |-> ComElasticidade(
                              df_dados, estado_alvo,
                              Variado(df_dados[estado_alvo].elasticidade,
                                      variacoes_pct[k])),
                orcamento |-> orcamento_sens,
                rotulo |-> variacoes_pct[k]]]
      [] operacao = "calcular_shadow_prices" ->
            <<[tabela |-> df_dados, orcamento |-> orcamento_sens + delta_sens,
               rotulo |-> "resultado_mais"],
              [tabela |-> df_dados, orcamento |-> orcamento_sens - delta_sens,
               rotulo |-> "resultado_menos"]>>
      [] operacao = "gerar_grafico_tornado" ->
            LET linhas == ComValor(df_dados, "elasticidade")
            IN  [k \in 1..(2 * Len(linhas)) |->
                   LET estado == linhas[(k + 1) \div 2]
                       var == VariacoesTornado[2 - (k % 2)]
                   IN  [tabela |-> ComElasticidade(
                                      df_dados, estado,
                                      Variado(df_dados[estado].elasticidade, var)),
                        orcamento |-> orcamento_sens,
                        rotulo |-> <<estado, var>>]]
      [] operacao = "analisar_cenarios" ->
            [k \in 1..Len(orcamentos_cenarios) |->
               [tabela |-> df_dados, orcamento |-> orcamentos_cenarios[k],
                rotulo |-> k]]
      [] operacao = "comparar_cenarios" ->
            <<[tabela |-> TabelaPessimista(df_dados),
               orcamento |-> orcamento_sens, rotulo |-> "Pessimista"],
              [tabela |-> df_dados,
               orcamento |-> orcamento_sens, rotulo |-> "Base"],
              [tabela |-> TabelaOtimista(df_dados),
               orcamento |-> orcamento_sens, rotulo |-> "Otimista"]>>

\* every budget and every elasticity of the call is a whole number of units
EntradasExatas ==
    CASE operacao = "analisar_sensibilidade_orcamento" ->
            \A k \in 1..Len(variacoes_pct) :
               VariadoExato(orcamento_sens, variacoes_pct[k])
      [] operacao = "analisar_sensibilidade_elasticidade" ->
            estado_alvo \in DOMAIN df_dados =>
               \A k \in 1..Len(variacoes_pct) :
                  VariadoExato(df_dados[estado_alvo].elasticidade,
                               variacoes_pct[k])
      [] operacao = "gerar_grafico_tornado" ->
            \A e \in DOMAIN df_dados : \A k \in 1..Len(VariacoesTornado) :
               VariadoExato(df_dados[e].elasticidade, VariacoesTornado[k])
      [] operacao = "comparar_cenarios" -> CenariosExatos(df_dados)
      [] OTHER -> TRUE

----------------------------------------------------------------------------
(* The sensitivity operations: the call *)

InitSens ==
    /\ ComparacaoParada
    /\ AlocacaoEMonteCarloParados
    /\ MultiPeriodoParado
    /\ df_dados \in TabelasSens
    /\ operacao \in Operacoes
    /\ orcamento_sens \in
          IF operacao = "analisar_cenarios" THEN {0} ELSE OrcamentoSensVals
    /\ estado_alvo \in
          IF operacao = "analisar_sensibilidade_elasticidade" THEN Siglas
          ELSE {""}
    /\ variacoes_pct \in
          CASE operacao = "analisar_sensibilidade_orcamento" ->
                  {VariacoesOrcamentoPadrao}
            [] operacao = "analisar_sensibilidade_elasticidade" ->
                  VariacoesElasticidadeVals
            [] OTHER -> {<<>>}
    /\ orcamentos_cenarios \in
          IF operacao = "analisar_cenarios" THEN OrcamentosCenariosVals
          ELSE {<<>>}
    /\ delta_sens \in IF operacao = "calcular_shadow_prices" THEN DeltaVals ELSE {0}
    /\ EntradasExatas
    /\ pc_sens = "inicio"
    /\ k_sens = 0
    /\ resultado_base = SemResultado
    /\ invest_base = 0
    /\ solves_sens = <<>>
    /\ linhas_sens = <<>>
    /\ retorno_sens = <<>>

\* otimizar_alocacao(tabela, orcamento) of this call: the solver, the
\* roundings and the merge give what they gave if the call already made this
\* solve
ResultadosDoSolve(tabela, orcamento) ==
    LET feitos == {j \in 1..Len(solves_sens) :
                      /\ solves_sens[j].tabela = tabela
                      /\ solves_sens[j].orcamento = orcamento}
    IN  IF feitos # {}
        THEN {solves_sens[CHOOSE j \in feitos : TRUE].resultado}
        ELSE ResultadosAlocacao(tabela, orcamento, InvestimentoMinimoPctPadrao,
                                InvestimentoMaximoPctPadrao)

\* lines 126-129: what reading the investment of estado_alvo off the base
\* result raises: the table of a result that is not Optimal is an empty
\* DataFrame, without the column sigla; a row that dropna removed is absent
ErroDaBase(res) ==
    IF operacao # "analisar_sensibilidade_elasticidade" THEN <<>>
    ELSE IF res.status # "Optimal" THEN [erro |-> "KeyError", linha |-> 128]
    ELSE IF estado_alvo \notin DOMAIN res.alocacao
         THEN [erro |-> "IndexError", linha |-> 129]
    ELSE <<>>

\* the first statements of the call, up to the loop: for the operations of
\* OperacoesComBase the lookup of elast_original (lines 121-123) and the base
\* solve (lines 63, 126, 185, 239)
IniciarSens ==
    /\ pc_sens = "inicio"
    /\ \/ /\ operacao \notin OperacoesComBase
          /\ pc_sens' = "laco"
          /\ UNCHANGED <<resultado_base, invest_base, solves_sens, retorno_sens>>
       \/ /\ operacao = "analisar_sensibilidade_elasticidade"
          /\ estado_alvo \notin DOMAIN df_dados
          /\ pc_sens' = "erro"
          /\ retorno_sens' = [erro |-> "IndexError", linha |-> 123]
          /\ UNCHANGED <<resultado_base, invest_base, solves_sens>>
       \/ /\ operacao \in OperacoesComBase
          /\ operacao = "analisar_sensibilidade_elasticidade"
                => estado_alvo \in DOMAIN df_dados
          /\ \E res \in ResultadosDoSolve(df_dados, orcamento_sens) :
                IF "erro" \in DOMAIN res
                THEN /\ pc_sens' = "erro"
                     /\ retorno_sens' = res
                     /\ UNCHANGED <<resultado_base, invest_base, solves_sens>>
                ELSE /\ solves_sens' =
                           <<[tabela |-> df_dados, orcamento |-> orcamento_sens,
                              resultado |-> res]>>
                     /\ resultado_base' = res
                     /\ IF ErroDaBase(res) # <<>>
                        THEN /\ pc_sens' = "erro"
                             /\ retorno_sens' = ErroDaBase(res)
                             /\ UNCHANGED invest_base
                        ELSE /\ pc_sens' = "laco"
                             /\ invest_base' =
                                   IF operacao = "analisar_sensibilidade_elasticidade"
                                   THEN res.alocacao[estado_alvo].investimento_milhoes
                                   ELSE 0
                             /\ UNCHANGED retorno_sens
    /\ df_dados' = TabelaDoChamador(df_dados, df_dados)
    /\ UNCHANGED <<vars_ce, vars_mc, vars_mp, orcamento_disponivel,
                   investimento_minimo_pct, investimento_maximo_pct, pc, status,
                   x, alocacao_lista, resultado, anterior, chamadas, operacao,
                   orcamento_sens, estado_alvo, variacoes_pct,
                   orcamentos_cenarios, delta_sens, k_sens, linhas_sens>>

\* the list of rows after the solve of item gave res: the body of
\* "if resultado.status == 'Optimal':" (lines 71-92, 139-154, 262-269,
\* 409-422; monte_carlo.py lines 248-258).  The columns kept are the ones
\* computed from the result.
LinhasApos(lista, item, res) ==
    IF res.status # "Optimal" THEN lista
    ELSE Append(lista,
           CASE operacao = "analisar_sensibilidade_orcamento" ->
                   [variacao_pct |-> item.rotulo,
                    orcamento_milhoes |-> item.orcamento,
                    orcamento_usado |-> res.orcamento_usado,
                    reducao_crimes |-> res.reducao_crimes,
                    reducao_pct |-> res.reducao_percentual,
                    delta_reducao |->
                       res.reducao_crimes - resultado_base.reducao_crimes,
                    status |-> res.status]
             [] operacao = "analisar_sensibilidade_elasticidade" ->
                   [estado |-> estado_alvo,
                    variacao_elasticidade_pct |-> item.rotulo,
                    elasticidade_original |-> df_dados[estado_alvo].elasticidade,
                    elasticidade_nova |-> item.tabela[estado_alvo].elasticidade,
                    investimento_base |-> invest_base,
                    investimento_novo |->
                       res.alocacao[estado_alvo].investimento_milhoes,
                    delta_investimento |->
                       res.alocacao[estado_alvo].investimento_milhoes
                          - invest_base,
                    reducao_crimes_total |-> res.reducao_crimes,
                    delta_reducao |->
                       res.reducao_crimes - resultado_base.reducao_crimes]
             [] operacao = "gerar_grafico_tornado" ->
                   [parametro |-> item.rotulo[1],
                    variacao |-> IF item.rotulo[2] > 0 THEN "+20%" ELSE "-20%",
                    impacto |->
                       res.reducao_crimes - resultado_base.reducao_crimes,
                    impacto_abs |->
                       Abs(res.reducao_crimes - resultado_base.reducao_crimes)]
             [] operacao = "analisar_cenarios" ->
                   [cenario |-> item.rotulo,
                    orcamento_milhoes |-> item.orcamento,
                    reducao_crimes |-> res.reducao_crimes,
                    reducao_pct |-> res.reducao_percentual,
                    estados_atendidos |->
                       Cardinality({e \in DOMAIN res.alocacao :
                                       res.alocacao[e].investimento_milhoes > 0})]
             [] operacao = "comparar_cenarios" ->
                   [cenario |-> item.rotulo,
                    reducao_crimes |-> res.reducao_crimes,
                    reducao_pct |-> res.reducao_percentual,
                    orcamento_usado |-> res.orcamento_usado]
             [] operacao = "calcular_shadow_prices" ->
                   [rotulo |-> item.rotulo])

\* one solve of the operation's loop (for calcular_shadow_prices lines
\* 188-189): the table is built, solved, and the row appended
PassoSens ==
    /\ pc_sens = "laco"
    /\ k_sens < Len(ItensSens)
    /\ LET item == ItensSens[k_sens + 1]
       IN  /\ \E res \in ResultadosDoSolve(item.tabela, item.orcamento) :
                IF "erro" \in DOMAIN res
                THEN /\ pc_sens' = "erro"
                     /\ retorno_sens' = res
                     /\ UNCHANGED <<k_sens, solves_sens, linhas_sens>>
                ELSE /\ solves_sens' =
                           Append(solves_sens,
                                  [tabela |-> item.tabela,
                                   orcamento |-> item.orcamento,
                                   resultado |-> res])
                     /\ linhas_sens' =
                           IF operacao = "calcular_shadow_prices" THEN linhas_sens
                           ELSE LinhasApos(linhas_sens, item, res)
                     /\ k_sens' = k_sens + 1
                     /\ UNCHANGED <<pc_sens, retorno_sens>>
           /\ df_dados' = TabelaDoChamador(df_dados, item.tabela)
    /\ UNCHANGED <<vars_ce, vars_mc, vars_mp, orcamento_disponivel,
                   investimento_minimo_pct, investimento_maximo_pct, pc, status,
                   x, alocacao_lista, resultado, anterior, chamadas, operacao,
                   orcamento_sens, estado_alvo, variacoes_pct,
                   orcamentos_cenarios, delta_sens, resultado_base, invest_base>>

\* lines 202-217: the states that get the key limite_max_<state> = "ATIVO"
Ativos(tabela, base) ==
    {e \in DOMAIN tabela :
        /\ "orcamento_2022_milhoes" \notin tabela[e].nulos
        /\ e \in DOMAIN base.alocacao
        /\ Abs(100 * base.alocacao[e].investimento_milhoes
                 - tabela[e].orcamento_2022_milhoes * LimiteMaxPct)
              < 100 * ToleranciaAtivo}

\* lines 192-197: round((mais - menos) / (2 * delta), 4) per R$ million, in
\* units of 0.0001
ShadowOrcamento(mais, menos, delta) ==
    RoundCasas((mais.reducao_crimes - menos.reducao_crimes) * 1000, 2 * delta, 4)

\* the end of the call: the returned table, figure or dictionary.  In
\* calcular_shadow_prices the loop of lines 202-217 reads the column sigla of
\* the base result's table, which an empty DataFrame (base not Optimal) does
\* not have.
RetornarSens ==
    /\ pc_sens = "laco"
    /\ k_sens = Len(ItensSens)
    /\ IF operacao = "calcular_shadow_prices"
       THEN IF /\ resultado_base.status # "Optimal"
               /\ \E e \in DOMAIN df_dados :
                     "orcamento_2022_milhoes" \notin df_dados[e].nulos
            THEN /\ pc_sens' = "erro"
                 /\ retorno_sens' = [erro |-> "KeyError", linha |-> 210]
            ELSE /\ pc_sens' = "retornou"
                 /\ \E sp \in ShadowOrcamento(solves_sens[2].resultado,
                                              solves_sens[3].resultado,
                                              delta_sens) :
                       retorno_sens' =
                          [orcamento_total |-> sp,
                           ativos |-> Ativos(df_dados, resultado_base)]
       ELSE /\ pc_sens' = "retornou"
            /\ retorno_sens' = linhas_sens
    /\ df_dados' = TabelaDoChamador(df_dados, df_dados)
    /\ UNCHANGED <<vars_ce, vars_mc, vars_mp, orcamento_disponivel,
                   investimento_minimo_pct, investimento_maximo_pct, pc, status,
                   x, alocacao_lista, resultado, anterior, chamadas, operacao,
                   orcamento_sens, estado_alvo, variacoes_pct,
                   orcamentos_cenarios, delta_sens, k_sens, resultado_base,
                   invest_base, solves_sens, linhas_sens>>

NextSens ==
    \/ IniciarSens
    \/ PassoSens
    \/ RetornarSens

SpecSens == InitSens /\ [][NextSens]_vars

----------------------------------------------------------------------------
(* C24 *)

----------------------------------------------------------------------------
(* C25 *)

\* the solves of the current call whose status is not Optimal
SolvesNaoOtimos ==
    {j \in 1..Len(solves_sens) : solves_sens[j].resultado.status # "Optimal"}

\* C25 (as claimed): the status of every solve is checked before its fields
\* are used: the shadow price of the budget is returned only when the base,
\* budget + delta and budget - delta solves are Optimal, the rows of the
\* other operations hold differences to an Optimal base solve, and no
\* operation raises after a solve that was not Optimal.
C25_StatusVerificadoAntesDoUso ==
    /\ (pc_sens = "retornou" /\ operacao = "calcular_shadow_prices")
          => SolvesNaoOtimos = {}
    /\ (pc_sens = "retornou" /\ operacao \in OperacoesComBase
          /\ linhas_sens # <<>>)
          => resultado_base.status = "Optimal"
    /\ pc_sens = "erro" => SolvesNaoOtimos = {}

----------------------------------------------------------------------------
(* C26 *)

\* C26 (as claimed): the recorded elasticities lying in [0.01, 0.30], every
\* elasticity of every table handed to the solver lies in [0.01, 0.30].
C26_ElasticidadeNoDominio ==
    \A j \in 1..Len(solves_sens) :
       \A e \in DOMAIN DropNa(solves_sens[j].tabela) :
          /\ solves_sens[j].tabela[e].elasticidade >= ElasticidadeMin
          /\ solves_sens[j].tabela[e].elasticidade <= ElasticidadeMax

----------------------------------------------------------------------------
(* C27 *)

\* the upper bounds that the base solve imposed
LimitesDaBase == InvMax(DropNa(df_dados), InvestimentoMaximoPctPadrao)

\* C27 (as claimed): calcular_shadow_prices marks a state ATIVO exactly when
\* its investment in the base solve is, within the tolerance of 0.01, at the
\* upper bound that the base solve imposed on it.
C27_AtivoNoLimiteImposto ==
    (pc_sens = "retornou" /\ operacao = "calcular_shadow_prices") =>
        \A e \in DOMAIN resultado_base.alocacao :
           e \in retorno_sens.ativos
              <=> Abs(resultado_base.alocacao[e].investimento_milhoes
                        - LimitesDaBase[e]) < ToleranciaAtivo

====
